---- MODULE Spec2Model ----
(***************************************************************************)
(* BaudLink serial-port session layer (internal/serial/manager.go).        *)
(*                                                                         *)
(* The Manager keeps two lookup tables (by port name, by session ID) over  *)
(* Session objects; every Session owns one hardware handle.  The hardware  *)
(* (go.bug.st/serial) is the environment and every hardware call may       *)
(* succeed or fail.  An action is one lock region of the code, or one      *)
(* access to an atomic variable or a channel.  OpenPort, ClosePort and     *)
(* CloseAll hold the manager lock from entry to return, so a call of them  *)
(* is one action.  Write, Read, Configure, Flush and SubscribeToReads      *)
(* release the manager lock when ValidateSession returns and lock the      *)
(* session afterwards: they are two actions, Enter and the locked part,    *)
(* and other calls run in between (SpecData, SpecSub).                     *)
(*                                                                         *)
(* SpecReader, SpecFanout and SpecStart run the Continuous Reader with its *)
(* goroutines.  SpecTimeout runs one ReadWithTimeout or WriteWithTimeout   *)
(* call against its goroutine and its timer.  SpecWatch runs the polling   *)
(* loop of Scanner.WatchPorts and a direct caller of Scan and GetPort      *)
(* while ports are plugged, unplugged, opened and closed, and SpecLine     *)
(* feeds a LineReader chunk by chunk.  SpecLock runs the methods of the    *)
(* Manager one step per lock acquired and per hardware call that returns,  *)
(* and SpecLocks adds the Reader with its readLoop and the Scanner to      *)
(* that.  SpecReaderFair, SpecTimeoutFair and SpecWatchFair add the        *)
(* fairness the Go scheduler, timers and tickers give.                     *)
(***************************************************************************)
EXTENDS Integers, Sequences, FiniteSets, TLC

VARIABLES
    allowSharedAccess,  \* Manager.allowSharedAccess
    sessions,           \* Manager.sessions: port name -> session
    sessionsByID,       \* Manager.sessionsByID: session ID -> session
    sess,               \* the Session objects ever allocated, by reference
    leaked,             \* hardware handles left open that no Session owns
    chans,              \* channels made by SubscribeToReads: TRUE once closed
    ret,                \* the call that returned last, with its result
    pending,            \* calls of the Manager between ValidateSession and the lock they take
    running,            \* Reader.running
    stopChan,           \* Reader.stopChan: TRUE once closed
    subscribers,        \* Reader.subscribers
    events,             \* the channels made by Reader.Subscribe
    procs,              \* the client threads and the readLoop goroutines
    panicked,           \* the process died of a runtime panic
    helper,             \* the ReadWithTimeout / WriteWithTimeout call under way
    present,            \* the port names the operating system enumerates
    watch,              \* the polling loop of Scanner.WatchPorts
    cachedPorts,        \* Scanner.cachedPorts
    scanner,            \* Scanner.excludePatterns and Scanner.manager
    scans,              \* the calls of Scanner.Scan under way, by caller
    lr,                 \* a LineReader, its subscription channel and its results
    threads             \* the tasks inside calls of SpecLock and SpecLocks, lock by lock

managerVars == <<allowSharedAccess, sessions, sessionsByID, sess, leaked, chans, ret>>
readerVars == <<running, stopChan, subscribers, events, procs, panicked>>
scannerVars == <<present, watch, cachedPorts, scanner, scans>>
restVars == <<scannerVars, lr, threads>>
notScanner == <<managerVars, pending, readerVars, helper, lr, threads>>
notLine == <<managerVars, pending, readerVars, helper, scannerVars, threads>>
notThreads == <<pending, readerVars, helper, scannerVars, lr>>
vars == <<managerVars, pending, readerVars, helper, restVars>>

----------------------------------------------------------------------------
(* Bounds of the model *)

MaxSessions == 3        \* Session objects allocated in one run of Spec
MaxDataSessions == 2    \* the same, in one run of SpecData
MaxData == 1            \* statistics counted plus channels subscribed in one run
MaxPending == 2         \* calls between ValidateSession and the session's lock in SpecData
MaxLen == 1             \* longest buffer handed to Read or Write
MaxSubscribes == 2      \* SubscribeToReads calls made in one run of SpecSub
MaxReaderSessions == 2  \* Session objects allocated in one run of SpecReader
MaxLoops == 1           \* readLoop goroutines spawned in one run of SpecReader
MaxStartLoops == 2      \* the same, in one run of SpecStart
MaxSubscribers == 1     \* Reader.Subscribe calls made in one run
MaxFanout == 2          \* the same, in one run of SpecFanout
ChanCap == 1            \* buffer of a Reader.Subscribe channel (100 in the code)
SeqBits == 2            \* width of DataEvent.Sequence (32 in the code)
StatBits == 3           \* width of the counters of PortStatistics (64 in the code)
NumClients == 2         \* client threads
ReaderClients == 1      \* client threads calling Start and Stop in SpecReader
MaxChanges == 1         \* changes of the discovered ports while WatchPorts runs
MaxWatchSessions == 1   \* Session objects allocated in one run of SpecWatch
MaxScans == 1           \* calls of Scan and GetPort beside the polling loop
MaxCalls == 2           \* calls of ReadWithTimeout and WriteWithTimeout in one run
LockThreads == 2        \* tasks calling the Manager in SpecLock
MaxLockSessions == 1    \* Session objects allocated in one run of SpecLock
MaxEvents == 2          \* events a readLoop of SpecLocks makes before its context is done
MaxLineSize == 2        \* largest maxLineSize given to NewLineReader
MaxChunk == 4           \* longest Data of one event read by a LineReader
MaxStream == 4          \* bytes sent to a LineReader in one run

Ports == {"COM1", "COM2"}
Clients == {"alice", "bob"}

(* PortConfig values offered to OpenPort and Configure: the smallest valid *)
(* config, the default one, and one config per way of being invalid.       *)
CfgMin == [BaudRate |-> 1, DataBits |-> 5, ReadTimeoutMs |-> 0]
DefaultConfig == [BaudRate |-> 9600, DataBits |-> 8, ReadTimeoutMs |-> 1000]
CfgBadBaud == [BaudRate |-> 0, DataBits |-> 8, ReadTimeoutMs |-> 1000]
CfgLowBits == [BaudRate |-> 9600, DataBits |-> 4, ReadTimeoutMs |-> 0]
CfgHighBits == [BaudRate |-> 9600, DataBits |-> 9, ReadTimeoutMs |-> 1000]
Configs == {CfgMin, DefaultConfig, CfgBadBaud, CfgLowBits, CfgHighBits}
InvalidConfigs == {CfgBadBaud, CfgLowBits, CfgHighBits}

(* The OpenPort requests the clients make: four valid ones, one per port   *)
(* name and exclusive flag, and every invalid config on every port.        *)
OpenRequests ==
    {<<"COM1", DefaultConfig, "alice", TRUE>>, <<"COM1", DefaultConfig, "bob", FALSE>>,
     <<"COM2", CfgMin, "bob", TRUE>>, <<"COM2", CfgMin, "alice", FALSE>>}
    \cup {<<p, c, "alice", e>> : p \in Ports, c \in InvalidConfigs, e \in BOOLEAN}

(* The requests of the data path, all on one port name *)
DataPort == "COM1"
DataRequests ==
    {<<DataPort, DefaultConfig, "alice", TRUE>>, <<DataPort, CfgMin, "bob", FALSE>>}
    \cup {<<DataPort, c, "alice", e>> : c \in InvalidConfigs, e \in BOOLEAN}
DataConfigs == {DefaultConfig} \cup InvalidConfigs

----------------------------------------------------------------------------
(* Error values.  The sentinels are the package's error variables; the     *)
(* others are built with fmt.Errorf at the place that returns them and are *)
(* equal to no sentinel.                                                   *)

Nil == "nil"
ErrPortNotOpen == "ErrPortNotOpen"
ErrPortLocked == "ErrPortLocked"
ErrInvalidSession == "ErrInvalidSession"
ErrInvalidConfig == "ErrInvalidConfig"
ErrPortClosed == "ErrPortClosed"
ErrBaudRate == "invalid baud rate: %d"
ErrDataBits == "invalid data bits: %d"
ErrOpenFailed == "failed to open port: %w"
ErrSetReadTimeout == "failed to set read timeout: %w"
ErrConfigureFailed == "failed to configure port: %w"
ErrWriteTimeout == "write timeout"
ErrReadTimeout == "read timeout"
ErrPortNotFound == "ErrPortNotFound"
ErrEnumerate == "enumerator error"  \* what enumerator.GetDetailedPortsList reports
HwErr == "hardware error"

NoSession == 0

----------------------------------------------------------------------------
(* Go maps *)

MapHas(m, k) == k \in DOMAIN m
MapPut(m, k, v) == [x \in (DOMAIN m) \cup {k} |-> IF x = k THEN v ELSE m[x]]
MapDelete(m, k) == [x \in (DOMAIN m) \ {k} |-> m[x]]
EmptyMap == [x \in {} |-> NoSession]

----------------------------------------------------------------------------
(* PortConfig.Validate *)

Validate(c) ==
    IF c.BaudRate < 1 THEN ErrBaudRate
    ELSE IF c.DataBits < 5 \/ c.DataBits > 8 THEN ErrDataBits
    ELSE Nil

(* &Session{...}: the reference of the next Session object *)
NewRef == Len(sess) + 1

(* An identifier generator that repeats itself *)
NewUUID_Repeats == IF sess = <<>> THEN Len(sess) + 1 ELSE sess[Len(sess)].ID

(* uuid.New(): an identifier no earlier session was given *)
NewUUID == Len(sess) + 1

(* The check with one of its three conditions forgotten *)
PortLocked_NoSharedFlag(portName, exclusive) ==
    /\ MapHas(sessions, portName)
    /\ \/ sess[sessions[portName]].Exclusive
       \/ exclusive

PortLocked_NoRequestFlag(portName, exclusive) ==
    /\ MapHas(sessions, portName)
    /\ \/ sess[sessions[portName]].Exclusive
       \/ ~allowSharedAccess

(* Manager.OpenPort, the check on an existing session of the port name *)
PortLocked(portName, exclusive) ==
    /\ MapHas(sessions, portName)
    /\ \/ sess[sessions[portName]].Exclusive
       \/ exclusive
       \/ ~allowSharedAccess

(* ValidateSession without the comparison of identifiers *)
ValidateSession_NoIDCheck(portName, sessionID) ==
    IF ~MapHas(sessions, portName)
    THEN [err |-> ErrPortNotOpen, session |-> NoSession]
    ELSE IF sess[sessions[portName]].closed
    THEN [err |-> ErrPortClosed, session |-> NoSession]
    ELSE [err |-> Nil, session |-> sessions[portName]]

(* Manager.ValidateSession: the error and the session it returns *)
ValidateSession(portName, sessionID) ==
    IF ~MapHas(sessions, portName)
    THEN [err |-> ErrPortNotOpen, session |-> NoSession]
    ELSE IF sess[sessions[portName]].ID # sessionID
    THEN [err |-> ErrInvalidSession, session |-> NoSession]
    ELSE IF sess[sessions[portName]].closed
    THEN [err |-> ErrPortClosed, session |-> NoSession]
    ELSE [err |-> Nil, session |-> sessions[portName]]

(* The part of the state closeSessionLocked works on *)
State == [sessions |-> sessions, sessionsByID |-> sessionsByID,
          sess |-> sess, chans |-> chans]

(* closeSessionLocked giving up when port.Close() reports an error *)
closeSessionLocked_KeepOnError(st, s, closeErr) ==
    IF closeErr # Nil THEN st
    ELSE [sessions |-> MapDelete(st.sessions, st.sess[s].PortName),
          sessionsByID |-> MapDelete(st.sessionsByID, st.sess[s].ID),
          sess |-> [st.sess EXCEPT ![s].closed = TRUE, ![s].readers = <<>>,
                                   ![s].portOpen = FALSE],
          chans |-> [c \in DOMAIN st.chans |->
                       IF \E i \in DOMAIN st.sess[s].readers : st.sess[s].readers[i] = c
                       THEN TRUE ELSE st.chans[c]]]

(* Manager.closeSessionLocked on session s; closeErr is what               *)
(* session.port.Close() reports, and the handle is released either way     *)
closeSessionLocked(st, s, closeErr) ==
    [sessions |-> MapDelete(st.sessions, st.sess[s].PortName),
     sessionsByID |-> MapDelete(st.sessionsByID, st.sess[s].ID),
     sess |-> [st.sess EXCEPT ![s].closed = TRUE, ![s].readers = <<>>,
                              ![s].portOpen = FALSE],
     chans |-> [c \in DOMAIN st.chans |->
                  IF \E i \in DOMAIN st.sess[s].readers : st.sess[s].readers[i] = c
                  THEN TRUE ELSE st.chans[c]]]

(* Manager.CloseAll, the loop over m.sessions; errs[p] is what closing the *)
(* handle of port name p reports                                           *)
RECURSIVE CloseEach(_, _, _)
CloseEach(st, names, errs) ==
    IF names = {} THEN st
    ELSE LET p == CHOOSE x \in names : TRUE
         IN CloseEach(closeSessionLocked(st, st.sessions[p], errs[p]), names \ {p}, errs)

Install(st) ==
    /\ sessions' = st.sessions
    /\ sessionsByID' = st.sessionsByID
    /\ sess' = st.sess
    /\ chans' = st.chans

RECURSIVE SumStats(_)
SumStats(n) ==
    IF n = 0 THEN 0
    ELSE sess[n].BytesSent + sess[n].BytesReceived + sess[n].Errors + SumStats(n - 1)

DataDone == SumStats(Len(sess)) + Len(chans)

(* What a call hands back: the method, the port name and exclusive flag it *)
(* was given, its error, the session it returns and its integer result.    *)
Result(op, portName, exclusive, err, session, n) ==
    [op |-> op, portName |-> portName, exclusive |-> exclusive,
     err |-> err, session |-> session, n |-> n]

----------------------------------------------------------------------------
(* Manager.OpenPort *)

(* The failure path without its port.Close() *)
PortClose_Missing(unowned) == unowned

(* port.Close() on a handle no Session owns: one open handle fewer *)
PortClose(unowned) == unowned - 1

NewSession(portName, config, clientID, exclusive) ==
    [ID |-> NewUUID, PortName |-> portName, ClientID |-> clientID,
     Exclusive |-> exclusive, Config |-> config,
     BytesSent |-> 0, BytesReceived |-> 0, Errors |-> 0,
     portOpen |-> TRUE, closed |-> FALSE, readers |-> <<>>]

OpenPort(portName, config, clientID, exclusive) ==
    LET R(err, s) == Result("OpenPort", portName, exclusive, err, s, 0)
    IN
    /\ UNCHANGED <<allowSharedAccess, chans>>
    /\ IF Validate(config) # Nil
       THEN /\ ret' = R(Validate(config), NoSession)
            /\ UNCHANGED <<sessions, sessionsByID, sess, leaked>>
       ELSE IF PortLocked(portName, exclusive)
       THEN /\ ret' = R(ErrPortLocked, NoSession)
            /\ UNCHANGED <<sessions, sessionsByID, sess, leaked>>
       ELSE \/ \* serial.Open fails
               /\ ret' = R(ErrOpenFailed, NoSession)
               /\ UNCHANGED <<sessions, sessionsByID, sess, leaked>>
            \/ \* serial.Open succeeds, SetReadTimeout fails: port.Close()
               /\ config.ReadTimeoutMs > 0
               /\ leaked' = PortClose(leaked + 1)
               /\ ret' = R(ErrSetReadTimeout, NoSession)
               /\ UNCHANGED <<sessions, sessionsByID, sess>>
            \/ \* serial.Open and SetReadTimeout succeed
               /\ sess' = Append(sess, NewSession(portName, config, clientID, exclusive))
               /\ UNCHANGED leaked
               /\ sessions' = MapPut(sessions, portName, NewRef)
               /\ sessionsByID' = MapPut(sessionsByID, NewUUID, NewRef)
               /\ ret' = R(Nil, NewRef)

(* ClosePort without the comparison of identifiers *)
ClosePort_NoIDCheck(portName, sessionID) ==
    LET R(err) == Result("ClosePort", portName, FALSE, err, NoSession, 0)
    IN
    /\ UNCHANGED allowSharedAccess
    /\ IF ~MapHas(sessions, portName)
       THEN /\ ret' = R(ErrPortNotOpen)
            /\ UNCHANGED <<sessions, sessionsByID, sess, leaked, chans>>
       ELSE \E closeErr \in {Nil, HwErr} :
              /\ Install(closeSessionLocked(State, sessions[portName], closeErr))
              /\ UNCHANGED leaked
              /\ ret' = R(closeErr)

(* Manager.ClosePort *)
ClosePort(portName, sessionID) ==
    LET R(err) == Result("ClosePort", portName, FALSE, err, NoSession, 0)
    IN
    /\ UNCHANGED allowSharedAccess
    /\ IF ~MapHas(sessions, portName)
       THEN /\ ret' = R(ErrPortNotOpen)
            /\ UNCHANGED <<sessions, sessionsByID, sess, leaked, chans>>
       ELSE IF sess[sessions[portName]].ID # sessionID
       THEN /\ ret' = R(ErrInvalidSession)
            /\ UNCHANGED <<sessions, sessionsByID, sess, leaked, chans>>
       ELSE \E closeErr \in {Nil, HwErr} :
              /\ Install(closeSessionLocked(State, sessions[portName], closeErr))
              /\ UNCHANGED leaked
              /\ ret' = R(closeErr)

(* Manager.CloseAll *)
CloseAll ==
    /\ UNCHANGED allowSharedAccess
    /\ \E errs \in [DOMAIN sessions -> {Nil, HwErr}] :
          Install(CloseEach(State, DOMAIN sessions, errs))
    /\ UNCHANGED leaked
    /\ ret' = Result("CloseAll", "", FALSE, Nil, NoSession, 0)

(* A call of Manager.ValidateSession by a client *)
CallValidateSession(portName, sessionID) ==
    /\ ret' = Result("ValidateSession", portName, FALSE,
                     ValidateSession(portName, sessionID).err,
                     ValidateSession(portName, sessionID).session, 0)
    /\ UNCHANGED <<allowSharedAccess, sessions, sessionsByID, sess, leaked, chans>>

(* atomic.StoreUint64 where the code has atomic.AddUint64 *)
AddUint64_Store(x, d) == d

(* atomic.AddUint64 on a counter of StatBits bits: the sum wraps.  A run   *)
(* of the model counts at most MaxData, which is below the modulus.        *)
AddUint64(x, d) == (x + d) % (2 ^ StatBits)

(* A call of Write, Read, Configure, Flush or SubscribeToReads that has    *)
(* come back from ValidateSession, which released m.mu, and has not yet    *)
(* locked session.mu or readersMu: the method, the session ValidateSession *)
(* returned and the argument of the call (a length or a config)            *)
Entered(op, s, arg) == [op |-> op, s |-> s, arg |-> arg]

(* The sequence q without its element k *)
Remove(q, k) == [i \in 1..(Len(q) - 1) |-> IF i < k THEN q[i] ELSE q[i + 1]]

(* Lines 308-311, 330-333, 353-360, 416-419 and 432-435: ValidateSession,  *)
(* and in Configure config.Validate after it; a failure returns at once    *)
Enter(op, portName, sessionID, arg) ==
    LET v == ValidateSession(portName, sessionID)
        err == IF v.err # Nil THEN v.err
               ELSE IF op = "Configure" THEN Validate(arg)
               ELSE Nil
    IN
    /\ UNCHANGED <<allowSharedAccess, sessions, sessionsByID, sess, leaked, chans>>
    /\ IF err # Nil
       THEN /\ ret' = Result(op, portName, FALSE, err, NoSession, 0)
            /\ UNCHANGED pending
       ELSE /\ pending' = Append(pending, Entered(op, v.session, arg))
            /\ UNCHANGED ret

(* The statistics of a session after its hardware write reported n bytes   *)
(* and err                                                                 *)
WriteStats(rec, n, err) ==
    IF err # Nil
    THEN [rec EXCEPT !.Errors = AddUint64(@, 1)]
    ELSE [rec EXCEPT !.BytesSent = AddUint64(@, n)]

(* Manager.Write, lines 313-325, of the call that is k-th in flight: one   *)
(* hardware write of a buffer of length arg under session.mu; the hardware *)
(* reports n bytes written and an error or nil.  The session may have been *)
(* closed since the call validated it.                                     *)
Write(k) ==
    LET s == pending[k].s
    IN
    /\ pending[k].op = "Write"
    /\ UNCHANGED <<allowSharedAccess, sessions, sessionsByID, leaked, chans>>
    /\ \E n \in 0..pending[k].arg, err \in {Nil, HwErr} :
          /\ sess' = [sess EXCEPT ![s] = WriteStats(@, n, err)]
          /\ ret' = Result("Write", sess[s].PortName, FALSE, err, NoSession, n)
    /\ pending' = Remove(pending, k)

(* Read counting a read of zero bytes as a failure *)
ReadStats_ZeroIsError(rec, n, err) ==
    IF err # Nil \/ n = 0
    THEN [rec EXCEPT !.Errors = AddUint64(@, 1)]
    ELSE [rec EXCEPT !.BytesReceived = AddUint64(@, n)]

(* The statistics of a session after its hardware read reported n bytes    *)
(* and err                                                                 *)
ReadStats(rec, n, err) ==
    IF err # Nil
    THEN [rec EXCEPT !.Errors = AddUint64(@, 1)]
    ELSE [rec EXCEPT !.BytesReceived = AddUint64(@, n)]

(* Manager.Read, lines 335-348, on the session s it validated: one         *)
(* hardware read into a buffer of maxBytes bytes under session.mu.  These  *)
(* are the ways it can end: the error and the length of the data it        *)
(* returns, and the sessions as it leaves them; a failed read returns no   *)
(* data.                                                                   *)
ReadResults(s, maxBytes) ==
    {[err |-> err, n |-> IF err = Nil THEN n ELSE 0,
      sess |-> [sess EXCEPT ![s] = ReadStats(@, n, err)]] :
        n \in 0..maxBytes, err \in {Nil, HwErr}}

(* Manager.Read, lines 335-348, of the call that is k-th in flight *)
Read(k) ==
    LET s == pending[k].s
    IN
    /\ pending[k].op = "Read"
    /\ UNCHANGED <<allowSharedAccess, sessions, sessionsByID, leaked, chans>>
    /\ \E r \in ReadResults(s, pending[k].arg) :
          /\ sess' = r.sess
          /\ ret' = Result("Read", sess[s].PortName, FALSE, r.err, NoSession, r.n)
    /\ pending' = Remove(pending, k)

(* A Configure that stores the new config before it applies it *)
Configure_StoresFirst(k) ==
    LET s == pending[k].s
        config == pending[k].arg
        R(err) == Result("Configure", sess[s].PortName, FALSE, err, NoSession, 0)
    IN
    /\ pending[k].op = "Configure"
    /\ UNCHANGED <<allowSharedAccess, sessions, sessionsByID, leaked, chans>>
    /\ sess' = [sess EXCEPT ![s].Config = config]
    /\ \/ ret' = R(ErrConfigureFailed)
       \/ config.ReadTimeoutMs > 0 /\ ret' = R(ErrSetReadTimeout)
       \/ ret' = R(Nil)
    /\ pending' = Remove(pending, k)

(* Manager.Configure, lines 362-376, of the call that is k-th in flight *)
Configure(k) ==
    LET s == pending[k].s
        config == pending[k].arg
        R(err) == Result("Configure", sess[s].PortName, FALSE, err, NoSession, 0)
    IN
    /\ pending[k].op = "Configure"
    /\ UNCHANGED <<allowSharedAccess, sessions, sessionsByID, leaked, chans>>
    /\ \/ \* port.SetMode fails
          /\ ret' = R(ErrConfigureFailed)
          /\ UNCHANGED sess
       \/ \* port.SetMode succeeds, port.SetReadTimeout fails
          /\ config.ReadTimeoutMs > 0
          /\ ret' = R(ErrSetReadTimeout)
          /\ UNCHANGED sess
       \/ \* both succeed
          /\ sess' = [sess EXCEPT ![s].Config = config]
          /\ ret' = R(Nil)
    /\ pending' = Remove(pending, k)

(* Manager.Flush, lines 437-440, of the call that is k-th in flight *)
Flush(k) ==
    LET s == pending[k].s
    IN
    /\ pending[k].op = "Flush"
    /\ UNCHANGED <<allowSharedAccess, sessions, sessionsByID, sess, leaked, chans>>
    /\ \E err \in {Nil, HwErr} :
          ret' = Result("Flush", sess[s].PortName, FALSE, err, NoSession, 0)
    /\ pending' = Remove(pending, k)

(* Manager.SubscribeToReads, lines 421-427, of the call that is k-th in    *)
(* flight: make the channel, append it to session.readers under readersMu  *)
(* and return it; the new channel is chans[Len(chans) + 1]                 *)
SubscribeToReads(k) ==
    LET s == pending[k].s
    IN
    /\ pending[k].op = "SubscribeToReads"
    /\ UNCHANGED <<allowSharedAccess, sessions, sessionsByID, leaked>>
    /\ chans' = Append(chans, FALSE)
    /\ sess' = [sess EXCEPT ![s].readers = Append(@, Len(chans) + 1)]
    /\ ret' = Result("SubscribeToReads", sess[s].PortName, FALSE, Nil, NoSession,
                     Len(chans) + 1)
    /\ pending' = Remove(pending, k)

----------------------------------------------------------------------------

(* One call of ReadWithTimeout / WriteWithTimeout that has not been made: *)
(* op is the helper, pc the place of the caller, worker the place of the   *)
(* goroutine of the call, resultChan the channel of the call, under the    *)
(* result of the Manager call, out what the caller returned                *)
NoResult == [err |-> "none", n |-> 0]
NoCall ==
    [op |-> "none", pc |-> "idle", worker |-> "none", resultChan |-> <<>>,
     deadline |-> FALSE, out |-> NoResult, under |-> NoResult,
     first |-> "none", waited |-> FALSE, s |-> NoSession]

(* No ReadWithTimeout / WriteWithTimeout call has been made.  The fields   *)
(* of NoCall are those of the latest call; calls counts the calls made and *)
(* old holds, by the number of their call, the earlier calls whose         *)
(* goroutine had not ended when the next call was made                     *)
NoHelper ==
    [op |-> "none", pc |-> "idle", worker |-> "none", resultChan |-> <<>>,
     deadline |-> FALSE, out |-> NoResult, under |-> NoResult,
     first |-> "none", waited |-> FALSE, s |-> NoSession,
     calls |-> 0, old |-> [c \in 1..MaxCalls |-> NoCall]]

(* A task that is in no call.  In a call, op is the method, pc the place   *)
(* the task is at, s the session it works on, call the hardware call it    *)
(* has in flight and cfg the config given to Configure; ports is the       *)
(* result a Scan has built, and sequence and event are the counter of a    *)
(* readLoop and the error of the event it is about to broadcast, and subs  *)
(* is the subscriber list a broadcast iterates.                            *)
NoEvent == "none"
Task == [op |-> "none", pc |-> "idle", s |-> NoSession, call |-> "none",
         cfg |-> DefaultConfig, todo |-> {}, ports |-> <<>>, sequence |-> 0,
         event |-> NoEvent, subs |-> <<>>]

(* NewLineReader has not been called.  dataChan is the subscription        *)
(* channel the LineReader reads, closed tells it is closed; stream is the  *)
(* bytes sent on it so far, errors tells an error event was sent, and out  *)
(* is the results of the ReadLine calls that have returned.                *)
NoLineReader ==
    [maxLine |-> 0, buffer |-> <<>>, dataChan |-> <<>>, closed |-> FALSE,
     stream |-> <<>>, errors |-> FALSE, out |-> <<>>]

(* No Scan is under way for a caller.  In a Scan, op is the method that    *)
(* was called and name the argument of GetPort, todo the enumerated ports  *)
(* the loop has not come to and result the PortInfos it has built; out and *)
(* err are what the last call returned, and calls counts the calls made.   *)
Callers == {"watch", "call"}
NoScan == [pc |-> "idle", op |-> "none", name |-> "", todo |-> {}, result |-> <<>>,
           out |-> <<>>, err |-> Nil, calls |-> 0]

(* WatchPorts has not been called.  calls counts the invocations of the    *)
(* callback and changes the changes of the discovered port set since the   *)
(* call of WatchPorts.                                                     *)
NoWatch ==
    [pc |-> "none", interval |-> 0, stop |-> FALSE, tick |-> FALSE,
     lastPorts |-> <<>>, calls |-> 0, changes |-> 0]

(* A client thread between calls, and a readLoop goroutine at its start *)
(* s is the session the Manager.Read of a readLoop validated and event the *)
(* error of the event it is about to broadcast                             *)
Client == [kind |-> "client", pc |-> "idle", sequence |-> 0, cancelled |-> FALSE,
           s |-> NoSession, event |-> NoEvent]
Loop == [kind |-> "loop", pc |-> "for", sequence |-> 0, cancelled |-> FALSE,
         s |-> NoSession, event |-> NoEvent]

(* The program after construction: NewManager, NewReader, NewScanner and   *)
(* NewLineReader have run and no call has been made                        *)
Constructed ==
    /\ allowSharedAccess \in BOOLEAN
    /\ sessions = EmptyMap
    /\ sessionsByID = EmptyMap
    /\ sess = <<>>
    /\ leaked = 0
    /\ chans = <<>>
    /\ ret = Result("none", "", FALSE, Nil, NoSession, 0)
    /\ pending = <<>>
    /\ running = FALSE
    /\ stopChan = FALSE
    /\ subscribers = <<>>
    /\ events = <<>>
    /\ procs = [i \in 1..NumClients |-> Client]
    /\ panicked = FALSE
    /\ helper = NoHelper
    /\ watch = NoWatch
    /\ cachedPorts = <<>>
    /\ scans = [w \in Callers |-> NoScan]
    /\ lr = NoLineReader
    /\ threads = [t \in 1..LockThreads |-> Task]

(* No serial port is plugged in *)
Init == Constructed /\ present = {} /\ scanner = [excludePatterns |-> <<>>, manager |-> "Manager"]

SessionIDs == 1..MaxSessions

(* What a whole call of a Manager method leaves alone *)
Idle == UNCHANGED <<pending, readerVars, helper, restVars>>

(* The registry: any interleaving of OpenPort, ClosePort, CloseAll and     *)
(* ValidateSession calls on two port names.                                *)
Next ==
    \/ \E rq \in OpenRequests :
          Len(sess) < MaxSessions /\ OpenPort(rq[1], rq[2], rq[3], rq[4]) /\ Idle
    \/ \E p \in Ports, id \in SessionIDs : ClosePort(p, id) /\ Idle
    \/ CloseAll /\ Idle
    \/ \E p \in Ports, id \in SessionIDs : CallValidateSession(p, id) /\ Idle

Spec == Init /\ [][Next]_vars

(* The data path: every method of the Manager on one port name.  Write,    *)
(* Read, Configure, Flush and SubscribeToReads are two steps each, Enter   *)
(* and the step under the lock of the session, and any call of another     *)
(* client can run between the two.                                         *)
DataIDs == 1..MaxDataSessions

(* What a step of a call in flight leaves alone *)
Away == UNCHANGED <<readerVars, helper, restVars>>

(* A run counts at most MaxData bytes, errors and channels: a call that    *)
(* adds a channel is made while the run has room for it, and a hardware    *)
(* call reports what the run has room for                                  *)
MayEnter == Len(pending) < MaxPending
MayCount == MayEnter /\ DataDone + Len(pending) < MaxData
InBudget == DataDone' + Len(pending') <= MaxData

NextData ==
    \/ \E rq \in DataRequests :
          Len(sess) < MaxDataSessions /\ OpenPort(rq[1], rq[2], rq[3], rq[4]) /\ Idle
    \/ \E id \in DataIDs : ClosePort(DataPort, id) /\ Idle
    \/ CloseAll /\ Idle
    \/ \E id \in DataIDs : CallValidateSession(DataPort, id) /\ Idle
    \/ \E id \in DataIDs, len \in 0..MaxLen : MayEnter /\ Enter("Write", DataPort, id, len) /\ Away
    \/ \E id \in DataIDs : MayEnter /\ Enter("Read", DataPort, id, MaxLen) /\ Away
    \/ \E id \in DataIDs, c \in DataConfigs : MayEnter /\ Enter("Configure", DataPort, id, c) /\ Away
    \/ \E id \in DataIDs : MayEnter /\ Enter("Flush", DataPort, id, 0) /\ Away
    \/ \E id \in DataIDs : MayCount /\ Enter("SubscribeToReads", DataPort, id, 0) /\ Away
    \/ \E k \in DOMAIN pending : Write(k) /\ Away /\ InBudget
    \/ \E k \in DOMAIN pending : Read(k) /\ Away /\ InBudget
    \/ \E k \in DOMAIN pending : Configure(k) /\ Away
    \/ \E k \in DOMAIN pending : Flush(k) /\ Away
    \/ \E k \in DOMAIN pending : SubscribeToReads(k) /\ Away

SpecData == Init /\ [][NextData]_vars

----------------------------------------------------------------------------
(* SubscribeToReads against ClosePort and CloseAll, with several calls in  *)
(* flight at once.                                                         *)

SubRequests ==
    {<<DataPort, DefaultConfig, "alice", TRUE>>, <<DataPort, CfgMin, "bob", FALSE>>}

NextSub ==
    \/ \E rq \in SubRequests :
          Len(sess) < MaxDataSessions /\ OpenPort(rq[1], rq[2], rq[3], rq[4]) /\ Idle
    \/ \E id \in DataIDs : ClosePort(DataPort, id) /\ Idle
    \/ CloseAll /\ Idle
    \/ \E id \in DataIDs :
          /\ Len(chans) + Len(pending) < MaxSubscribes
          /\ Enter("SubscribeToReads", DataPort, id, 0)
          /\ Away
    \/ \E k \in DOMAIN pending : SubscribeToReads(k) /\ Away

SpecSub == Init /\ [][NextSub]_vars

----------------------------------------------------------------------------
(* The Continuous Reader (Reader, lines 468-620), attached to the first    *)
(* session of DataPort.  Its methods run in client threads and its loop in *)
(* goroutines of its own; each step below is one access to what they       *)
(* share: the running flag, stopChan, the subscriber list under subMu, a   *)
(* context, the Manager.                                                   *)

ReaderPort == DataPort
ReaderSession == 1
ReaderRequest == <<ReaderPort, DefaultConfig, "alice", TRUE>>
SeqModulus == 2 ^ SeqBits

IsLoop(i) == i \in DOMAIN procs /\ procs[i].kind = "loop"
IsClient(i) == i \in DOMAIN procs /\ procs[i].kind = "client"
Loops == {i \in DOMAIN procs : procs[i].kind = "loop"}
(* A readLoop goroutine that has returned: its locals are gone *)
Done == [kind |-> "loop", pc |-> "done", sequence |-> 0, cancelled |-> FALSE,
         s |-> NoSession, event |-> NoEvent]

Goto(i, pc) ==
    procs' = [procs EXCEPT ![i] = IF pc = "done" THEN Done ELSE [@ EXCEPT !.pc = pc]]

(* Where a thread is once its call of Stop or Start has returned: a client *)
(* is between calls, a readLoop returns right after its r.Stop()           *)
Returned(i) == IF procs[i].kind = "client" THEN "idle" ELSE "done"

DataEvent(sequence, err) == [Sequence |-> sequence, Error |-> err]
NewChan == [closed |-> FALSE, buf |-> <<>>, last |-> 0]
Range(q) == {q[k] : k \in DOMAIN q}

(* Reader.Start, line 506: running.Load() *)
StartLoad(i) ==
    /\ IsClient(i) /\ procs[i].pc = "idle"
    /\ Goto(i, IF running THEN "idle" ELSE "start")
    /\ UNCHANGED <<managerVars, pending, helper, restVars, running, stopChan, subscribers, events, panicked>>

(* Reader.Start, lines 511-514: ValidateSession; an error returns *)
StartValidate(i) ==
    /\ IsClient(i) /\ procs[i].pc = "start"
    /\ Goto(i, IF ValidateSession(ReaderPort, ReaderSession).err # Nil THEN "idle" ELSE "spawn")
    /\ UNCHANGED <<managerVars, pending, helper, restVars, running, stopChan, subscribers, events, panicked>>

(* Reader.Start, lines 516-520: running.Store(true) and go r.readLoop(ctx) *)
StartSpawn(i) ==
    /\ IsClient(i) /\ procs[i].pc = "spawn"
    /\ running' = TRUE
    /\ procs' = Append([procs EXCEPT ![i].pc = "idle"], Loop)
    /\ UNCHANGED <<managerVars, pending, helper, restVars, stopChan, subscribers, events, panicked>>

(* Reader.Stop, line 525: running.Load(), by a client or by a readLoop     *)
(* that reached its r.Stop()                                               *)
StopLoad(i) ==
    /\ i \in DOMAIN procs
    /\ procs[i].pc = (IF procs[i].kind = "client" THEN "idle" ELSE "stop")
    /\ Goto(i, IF running THEN "stopStore" ELSE Returned(i))
    /\ UNCHANGED <<managerVars, pending, helper, restVars, running, stopChan, subscribers, events, panicked>>

(* Reader.Stop, line 529: running.Store(false) *)
StopStore(i) ==
    /\ i \in DOMAIN procs /\ procs[i].pc = "stopStore"
    /\ running' = FALSE
    /\ Goto(i, "stopClose")
    /\ UNCHANGED <<managerVars, pending, helper, restVars, stopChan, subscribers, events, panicked>>

(* close(ch) of the Go runtime: closing a closed channel panics *)
CloseChan(closed) == [panic |-> closed, closed |-> TRUE]

(* Reader.Stop, line 530: close(r.stopChan) *)
StopClose(i) ==
    /\ i \in DOMAIN procs /\ procs[i].pc = "stopClose"
    /\ panicked' = CloseChan(stopChan).panic
    /\ stopChan' = CloseChan(stopChan).closed
    /\ IF CloseChan(stopChan).panic THEN UNCHANGED procs ELSE Goto(i, "stopSubs")
    /\ UNCHANGED <<managerVars, pending, helper, restVars, running, subscribers, events>>

(* Reader.Stop, lines 533-537, under subMu: close every subscriber         *)
(* channel, subscribers = nil                                              *)
StopSubs(i) ==
    /\ i \in DOMAIN procs /\ procs[i].pc = "stopSubs"
    /\ events' = [c \in DOMAIN events |->
                    IF c \in Range(subscribers)
                    THEN [events[c] EXCEPT !.closed = CloseChan(events[c].closed).closed]
                    ELSE events[c]]
    /\ panicked' = \E c \in Range(subscribers) : CloseChan(events[c].closed).panic
    /\ subscribers' = <<>>
    /\ Goto(i, Returned(i))
    /\ UNCHANGED <<managerVars, pending, helper, restVars, running, stopChan>>

(* Reader.Subscribe, under subMu; the new channel is events[Len(events)+1] *)
Subscribe ==
    /\ events' = Append(events, NewChan)
    /\ subscribers' = Append(subscribers, Len(events) + 1)
    /\ UNCHANGED <<managerVars, pending, helper, restVars, running, stopChan, procs, panicked>>

(* Reader.Unsubscribe(ch), under subMu: close and remove ch when it is in  *)
(* the list, nothing otherwise                                             *)
Unsubscribe(ch) ==
    /\ IF ch \in Range(subscribers)
       THEN /\ events' = [events EXCEPT ![ch].closed = CloseChan(@).closed]
            /\ panicked' = CloseChan(events[ch].closed).panic
            /\ subscribers' = SelectSeq(subscribers, LAMBDA c : c # ch)
       ELSE UNCHANGED <<events, panicked, subscribers>>
    /\ UNCHANGED <<managerVars, pending, helper, restVars, running, stopChan, procs>>

(* A subscriber takes the next event out of its channel ch *)
Receive(ch) ==
    /\ ch \in DOMAIN events /\ events[ch].buf # <<>>
    /\ events' = [events EXCEPT ![ch].buf = Tail(@), ![ch].last = Head(events[ch].buf).Sequence]
    /\ UNCHANGED <<managerVars, pending, helper, restVars, running, stopChan, subscribers, procs, panicked>>

(* The context handed to the Start call that spawned readLoop l is         *)
(* cancelled                                                               *)
CancelCtx(l) ==
    /\ IsLoop(l) /\ ~procs[l].cancelled /\ procs[l].pc # "done"
    /\ procs' = [procs EXCEPT ![l].cancelled = TRUE]
    /\ UNCHANGED <<managerVars, pending, helper, restVars, running, stopChan, subscribers, events, panicked>>

(* readLoop, line 570: for r.running.Load() *)
LoopFor(l) ==
    /\ IsLoop(l) /\ procs[l].pc = "for"
    /\ Goto(l, IF running THEN "select" ELSE "done")
    /\ UNCHANGED <<managerVars, pending, helper, restVars, running, stopChan, subscribers, events, panicked>>

(* readLoop, lines 571-577: the cases of the select that can be taken; the *)
(* default case is taken only when no channel is ready                     *)
SelectCases(done, stopped) ==
    (IF done THEN {"stop"} ELSE {})
    \cup (IF stopped THEN {"done"} ELSE {})
    \cup (IF ~done /\ ~stopped THEN {"read"} ELSE {})

(* readLoop, line 571: the select *)
LoopSelect(l) ==
    /\ IsLoop(l) /\ procs[l].pc = "select"
    /\ \E pc \in SelectCases(procs[l].cancelled, stopChan) : Goto(l, pc)
    /\ UNCHANGED <<managerVars, pending, helper, restVars, running, stopChan, subscribers, events, panicked>>

(* broadcast that waits at the first subscriber whose buffer is full: the  *)
(* subscribers after it in the list get nothing                            *)
broadcast_StopsAtFull(ev, subs, event) ==
    [c \in DOMAIN ev |->
        IF \E k \in DOMAIN subs :
              /\ subs[k] = c
              /\ \A j \in 1..k : Len(ev[subs[j]].buf) < ChanCap
        THEN [ev[c] EXCEPT !.buf = Append(@, event)]
        ELSE ev[c]]

(* Reader.broadcast, lines 608-619, under subMu.RLock: a send to every     *)
(* subscriber whose buffer has room, nothing for the others                *)
broadcast(ev, subs, event) ==
    [c \in DOMAIN ev |->
        IF c \in Range(subs) /\ Len(ev[c].buf) < ChanCap
        THEN [ev[c] EXCEPT !.buf = Append(@, event)]
        ELSE ev[c]]

(* readLoop, line 597: the errors that end the loop *)
Fatal(err) == err = ErrPortClosed \/ err = ErrInvalidSession

(* readLoop, lines 585-590: the event made of what manager.Read returned;  *)
(* the counter is a local variable of the loop                             *)
MakeEvent(p, err) ==
    [p EXCEPT !.sequence = (@ + 1) % SeqModulus, !.event = err, !.s = NoSession,
              !.pc = "broadcast"]

(* readLoop, line 578, and Manager.Read, lines 330-333: ValidateSession;   *)
(* its error comes back as the error of manager.Read                       *)
LoopValidate(l) ==
    LET v == ValidateSession(ReaderPort, ReaderSession)
    IN
    /\ IsLoop(l) /\ procs[l].pc = "read"
    /\ procs' = [procs EXCEPT ![l] = IF v.err # Nil THEN MakeEvent(@, v.err)
                                     ELSE [@ EXCEPT !.s = v.session, !.pc = "hw"]]
    /\ UNCHANGED <<managerVars, pending, helper, restVars>>
    /\ UNCHANGED <<running, stopChan, subscribers, events, panicked>>

(* readLoop, lines 578-590, and Manager.Read, lines 335-348: the hardware  *)
(* read under session.mu on the session that was validated; a read of no   *)
(* bytes without an error goes back to the top of the loop                 *)
LoopRead(l) ==
    /\ IsLoop(l) /\ procs[l].pc = "hw"
    /\ UNCHANGED <<allowSharedAccess, sessions, sessionsByID, leaked, chans, ret>>
    /\ UNCHANGED <<pending, helper, restVars>>
    /\ UNCHANGED <<running, stopChan, subscribers, events, panicked>>
    /\ \E r \in ReadResults(procs[l].s, MaxLen) :
          /\ sess' = r.sess
          /\ DataDone' <= MaxData
          /\ procs' = [procs EXCEPT ![l] = IF r.err = Nil /\ r.n = 0
                                           THEN [@ EXCEPT !.s = NoSession, !.pc = "for"]
                                           ELSE MakeEvent(@, r.err)]

(* readLoop, lines 592-602: broadcast of the event under subMu.RLock; a    *)
(* fatal error then calls r.Stop(), any other goes back to the top         *)
LoopBroadcast(l) ==
    /\ IsLoop(l) /\ procs[l].pc = "broadcast"
    /\ events' = broadcast(events, subscribers,
                           DataEvent(procs[l].sequence, procs[l].event))
    /\ procs' = [procs EXCEPT ![l].event = NoEvent,
                              ![l].pc = IF Fatal(procs[l].event) THEN "stop" ELSE "for"]
    /\ UNCHANGED <<managerVars, pending, helper, restVars>>
    /\ UNCHANGED <<running, stopChan, subscribers, panicked>>

(* The steps of a thread that is inside Start, Stop or readLoop *)
Running(i) ==
    \/ StartValidate(i)
    \/ StartSpawn(i)
    \/ IsLoop(i) /\ StopLoad(i)
    \/ StopStore(i)
    \/ StopClose(i)
    \/ StopSubs(i)
    \/ LoopFor(i)
    \/ LoopSelect(i)
    \/ LoopValidate(i)
    \/ LoopRead(i)
    \/ LoopBroadcast(i)

(* A runtime panic ends the process: nothing runs after it *)
Alive == ~panicked

OpenReaderPort ==
    OpenPort(ReaderRequest[1], ReaderRequest[2], ReaderRequest[3], ReaderRequest[4])

(* The life of a Reader: one client thread starts and stops it, its        *)
(* context is cancelled, subscribers come and go, and the session it is    *)
(* attached to is closed and the port name reopened.                       *)
NextReader ==
    \/ Alive /\ Len(sess) < MaxReaderSessions /\ OpenReaderPort /\ Idle
    \/ \E id \in 1..MaxReaderSessions : Alive /\ ClosePort(ReaderPort, id) /\ Idle
    \/ \E i \in 1..ReaderClients : Alive /\ Cardinality(Loops) < MaxLoops /\ StartLoad(i)
    \/ \E i \in DOMAIN procs : Alive /\ StartValidate(i)
    \/ \E i \in DOMAIN procs : Alive /\ StartSpawn(i)
    \/ \E i \in DOMAIN procs : Alive /\ (IsLoop(i) \/ i <= ReaderClients) /\ StopLoad(i)
    \/ \E i \in DOMAIN procs : Alive /\ StopStore(i)
    \/ \E i \in DOMAIN procs : Alive /\ StopClose(i)
    \/ \E i \in DOMAIN procs : Alive /\ StopSubs(i)
    \/ Alive /\ Len(events) < MaxSubscribers /\ Subscribe
    \/ \E ch \in DOMAIN events : Alive /\ Unsubscribe(ch)
    \/ \E ch \in DOMAIN events : Alive /\ Receive(ch)
    \/ \E l \in DOMAIN procs : Alive /\ CancelCtx(l)
    \/ \E l \in DOMAIN procs : Alive /\ LoopFor(l)
    \/ \E l \in DOMAIN procs : Alive /\ LoopSelect(l)
    \/ \E l \in DOMAIN procs : Alive /\ LoopValidate(l)
    \/ \E l \in DOMAIN procs : Alive /\ LoopRead(l)
    \/ \E l \in DOMAIN procs : Alive /\ LoopBroadcast(l)

(* The fan-out: one readLoop and several subscribers, while the session is *)
(* open and after it is closed                                             *)
NextFanout ==
    \/ Alive /\ sess = <<>> /\ OpenReaderPort /\ Idle
    \/ Alive /\ ClosePort(ReaderPort, ReaderSession) /\ Idle
    \/ Alive /\ Cardinality(Loops) < MaxLoops /\ StartLoad(1)
    \/ Alive /\ StartValidate(1)
    \/ Alive /\ StartSpawn(1)
    \/ Alive /\ Len(events) < MaxFanout /\ Subscribe
    \/ \E ch \in DOMAIN events : Alive /\ Receive(ch)
    \/ \E l \in DOMAIN procs : Alive /\ LoopFor(l)
    \/ \E l \in DOMAIN procs : Alive /\ LoopSelect(l)
    \/ \E l \in DOMAIN procs : Alive /\ LoopValidate(l)
    \/ \E l \in DOMAIN procs : Alive /\ LoopRead(l)
    \/ \E l \in DOMAIN procs : Alive /\ LoopBroadcast(l)

(* Start called by several client threads at once *)
NextStart ==
    \/ Alive /\ sess = <<>> /\ OpenReaderPort /\ Idle
    \/ Alive /\ ClosePort(ReaderPort, ReaderSession) /\ Idle
    \/ \E i \in 1..NumClients : Alive /\ Cardinality(Loops) < MaxStartLoops /\ StartLoad(i)
    \/ \E i \in 1..NumClients : Alive /\ StartValidate(i)
    \/ \E i \in 1..NumClients : Alive /\ StartSpawn(i)
    \/ Alive /\ Len(events) < MaxSubscribers /\ Subscribe
    \/ \E ch \in DOMAIN events : Alive /\ Receive(ch)
    \/ \E l \in DOMAIN procs : Alive /\ LoopFor(l)
    \/ \E l \in DOMAIN procs : Alive /\ LoopSelect(l)
    \/ \E l \in DOMAIN procs : Alive /\ LoopValidate(l)
    \/ \E l \in DOMAIN procs : Alive /\ LoopRead(l)
    \/ \E l \in DOMAIN procs : Alive /\ LoopBroadcast(l)

(* The Reader's session is opened with exclusive=true, so the             *)
(* shared-access setting plays no part                                     *)
InitReader == Init /\ ~allowSharedAccess

SpecReader == InitReader /\ [][NextReader]_vars
SpecFanout == InitReader /\ [][NextFanout]_vars
SpecStart == InitReader /\ [][NextStart]_vars

(* The Go scheduler runs every goroutine that can run, and the hardware    *)
(* read returns (the session has a read timeout): a thread inside Start,   *)
(* Stop or readLoop takes its next step.  Nothing obliges a client to make *)
(* a call.                                                                 *)
SpecReaderFair ==
    /\ InitReader
    /\ [][NextReader]_vars
    /\ \A i \in 1..(NumClients + MaxLoops) : WF_vars(Alive /\ Running(i))

----------------------------------------------------------------------------
(* ReadWithTimeout and WriteWithTimeout (lines 633-675).  The caller makes *)
(* a context with a deadline and a result channel with one slot, starts a  *)
(* goroutine that makes the Manager call and sends its result, and selects *)
(* on the two.  helper.first and helper.waited record which of the result  *)
(* and the deadline came first, and whether the caller was already waiting *)
(* in its select by then.  The goroutine of a call goes on after its       *)
(* caller has returned by the deadline, and the caller can make its next   *)
(* call meanwhile; the goroutines of one session take session.mu in turn.  *)

TimeoutPort == DataPort
TimeoutSession == 1

(* Lines 648 and 673: what the helper returns when the deadline wins *)
TimedOut(op) ==
    [err |-> IF op = "Read" THEN ErrReadTimeout ELSE ErrWriteTimeout, n |-> 0]

(* The numbers of the calls of the helpers *)
Calls == 1..MaxCalls

(* The call number c: the latest one is in the fields of helper itself *)
Goroutine(c) == IF c = helper.calls THEN helper ELSE helper.old[c]

(* helper with h as its call number c *)
Put(c, h) == IF c = helper.calls THEN h ELSE [helper EXCEPT !.old[c] = h]

(* The call h as it is kept once a later call has been made *)
Past(h) == [f \in DOMAIN NoCall |-> h[f]]

(* The goroutine of the call h has not ended: it is about to validate the  *)
(* session, waits for session.mu, is inside the hardware call, which may   *)
(* never return, or is about to send its result                            *)
GoroutineAlive(h) == h.worker \in {"validate", "lock", "hw", "hung", "send"}
WorkerAlive == GoroutineAlive(helper)

(* The goroutine of the call h holds the session.mu of its session, from   *)
(* session.mu.Lock() (lines 313, 335) to the return of Write or Read       *)
HoldsMu(h) == h.worker \in {"hw", "hung"}

(* Lines 634-641 and 654-666: context.WithTimeout, make(chan, 1), go func. *)
(* Nothing keeps a caller from a further call while the goroutine of an    *)
(* earlier one has not ended.                                              *)
TimeoutCall(op) ==
    /\ helper.pc \in {"idle", "returned"}
    /\ helper.calls < MaxCalls
    /\ helper' = [NoHelper EXCEPT
                    !.op = op, !.pc = "call", !.worker = "validate",
                    !.calls = helper.calls + 1,
                    !.old = IF helper.calls = 0 THEN helper.old
                            ELSE [helper.old EXCEPT ![helper.calls] =
                                    IF WorkerAlive THEN Past(helper) ELSE NoCall]]
    /\ UNCHANGED <<managerVars, pending, readerVars, restVars>>

(* A select that waits for the result alone *)
SelectReady_NoDeadline(hasResult, deadline) ==
    IF hasResult THEN {"result"} ELSE {}

(* Lines 643-649 and 668-674: the cases of the select that can proceed *)
SelectReady(hasResult, deadline) ==
    (IF hasResult THEN {"result"} ELSE {}) \cup (IF deadline THEN {"deadline"} ELSE {})

(* The event ev ("result" or "deadline") happens: when the caller waits in *)
(* its select and ev is one of its cases, the caller takes it and returns  *)
Happens(h, ev, res) ==
    LET taken == h.pc = "blocked" /\ ev \in SelectReady(ev = "result", ev = "deadline")
    IN [h EXCEPT !.first = IF @ = "none" THEN ev ELSE @,
                 !.waited = IF h.first = "none" THEN h.pc = "blocked" ELSE @,
                 !.pc = IF taken THEN "returned" ELSE @,
                 !.out = IF taken THEN res ELSE @]

(* Lines 637 and 662: make(chan ReadResult, 1), make(chan writeResult, 1) *)
ResultChanCap == 1

(* A result channel without a buffer *)
CanSend_Unbuffered(h) == h.pc = "blocked"

(* Lines 641 and 666: the send on resultChan proceeds when the channel has *)
(* a free slot or the caller waits in its select                           *)
CanSend(h) == Len(h.resultChan) < ResultChanCap \/ h.pc = "blocked"

(* Lines 640 and 665, the goroutine of call c: ValidateSession of its      *)
(* Manager call; an error is the result of the call                        *)
WorkerValidate(c) ==
    LET h == Goroutine(c)
        v == ValidateSession(TimeoutPort, TimeoutSession)
    IN
    /\ h.worker = "validate"
    /\ helper' = Put(c, IF v.err # Nil
                        THEN [h EXCEPT !.worker = "send", !.under = [err |-> v.err, n |-> 0]]
                        ELSE [h EXCEPT !.worker = "lock", !.s = v.session])
    /\ UNCHANGED <<managerVars, pending, readerVars, restVars>>

(* Lines 313 and 335, the goroutine of call c: session.mu.Lock() returns   *)
(* when no other goroutine holds the mutex of the session                  *)
WorkerLock(c) ==
    LET h == Goroutine(c)
    IN
    /\ h.worker = "lock"
    /\ \A d \in Calls : ~(HoldsMu(Goroutine(d)) /\ Goroutine(d).s = h.s)
    /\ helper' = Put(c, [h EXCEPT !.worker = "hw"])
    /\ UNCHANGED <<managerVars, pending, readerVars, restVars>>

(* Lines 315-325 and 337-348, the goroutine of call c: the hardware call   *)
(* of Manager.Write or Manager.Read returns, the statistics are updated    *)
(* and the Manager call returns, which unlocks session.mu                  *)
WorkerCall(c) ==
    LET h == Goroutine(c)
        s == h.s
    IN
    /\ h.worker = "hw"
    /\ \/ /\ h.op = "Read"
          /\ \E r \in ReadResults(s, MaxLen) :
                /\ sess' = r.sess
                /\ helper' = Put(c, [h EXCEPT !.worker = "send", !.s = NoSession,
                                              !.under = [err |-> r.err, n |-> r.n]])
       \/ /\ h.op = "Write"
          /\ \E len \in 0..MaxLen : \E n \in 0..len, err \in {Nil, HwErr} :
                /\ sess' = [sess EXCEPT ![s] = WriteStats(@, n, err)]
                /\ helper' = Put(c, [h EXCEPT !.worker = "send", !.s = NoSession,
                                              !.under = [err |-> err, n |-> n]])
    /\ UNCHANGED <<allowSharedAccess, sessions, sessionsByID, leaked, chans, ret>>
    /\ UNCHANGED <<pending, readerVars, restVars>>

(* Lines 315 and 339, the goroutine of call c: the hardware call is one    *)
(* that never returns; the goroutine stays in it with session.mu held      *)
WorkerHangs(c) ==
    LET h == Goroutine(c)
    IN
    /\ h.worker = "hw"
    /\ helper' = Put(c, [h EXCEPT !.worker = "hung"])
    /\ UNCHANGED <<managerVars, pending, readerVars, restVars>>

(* Lines 641 and 666, the goroutine of call c: the result is sent and the  *)
(* goroutine ends.  A caller that waits in its select takes the value;     *)
(* otherwise it stays in the buffer of the channel, also when the caller   *)
(* has returned.                                                           *)
WorkerSend(c) ==
    LET h == Goroutine(c)
    IN
    /\ h.worker = "send"
    /\ CanSend(h)
    /\ helper' = Put(c, [Happens(h, "result", h.under) EXCEPT
                           !.worker = "done",
                           !.resultChan = IF h.pc = "blocked" THEN @
                                          ELSE Append(@, h.under)])
    /\ UNCHANGED <<managerVars, pending, readerVars, restVars>>

(* The steps of the goroutine of call c *)
Worker(c) ==
    \/ WorkerValidate(c)
    \/ WorkerLock(c)
    \/ WorkerCall(c)
    \/ WorkerHangs(c)
    \/ WorkerSend(c)

(* The deadline of the context passes: ctx.Done() is closed *)
DeadlineFires ==
    /\ helper.pc \in {"call", "blocked"} /\ ~helper.deadline
    /\ helper' = [Happens(helper, "deadline", TimedOut(helper.op)) EXCEPT !.deadline = TRUE]
    /\ UNCHANGED <<managerVars, pending, readerVars, restVars>>

(* Lines 643-649 and 668-674: the caller reaches its select.  It takes a   *)
(* case that can proceed, any of them when both can, and waits otherwise   *)
EnterSelect ==
    /\ helper.pc = "call"
    /\ LET ready == SelectReady(helper.resultChan # <<>>, helper.deadline)
       IN IF ready = {}
          THEN helper' = [helper EXCEPT !.pc = "blocked"]
          ELSE \E case \in ready :
                  helper' = [helper EXCEPT
                               !.pc = "returned",
                               !.out = IF case = "result" THEN Head(helper.resultChan)
                                       ELSE TimedOut(helper.op),
                               !.resultChan = IF case = "result" THEN <<>> ELSE @]
    /\ UNCHANGED <<managerVars, pending, readerVars, restVars>>

NextTimeout ==
    \/ sess = <<>> /\ OpenReaderPort /\ Idle
    \/ ClosePort(TimeoutPort, TimeoutSession) /\ Idle
    \/ \E op \in {"Read", "Write"} : TimeoutCall(op)
    \/ \E c \in Calls : WorkerValidate(c)
    \/ \E c \in Calls : WorkerLock(c)
    \/ \E c \in Calls : WorkerCall(c)
    \/ \E c \in Calls : WorkerHangs(c)
    \/ \E c \in Calls : WorkerSend(c)
    \/ DeadlineFires
    \/ EnterSelect

SpecTimeout == InitReader /\ [][NextTimeout]_vars

(* The runtime fires the timer of context.WithTimeout once the timeout has *)
(* passed, and the scheduler runs the caller up to its select.  Nothing    *)
(* obliges the Manager call of the goroutine to return.                    *)
SpecTimeoutFair ==
    /\ InitReader
    /\ [][NextTimeout]_vars
    /\ WF_vars(DeadlineFires)
    /\ WF_vars(EnterSelect)

(* The scheduler runs every goroutine that can run, and a hardware call    *)
(* returns unless it is one that never does (WorkerHangs).  Nothing        *)
(* obliges a caller to make a call or the timer to fire.                   *)
SpecTimeoutWorkers ==
    /\ InitReader
    /\ [][NextTimeout]_vars
    /\ \A c \in Calls : WF_vars(Worker(c))

----------------------------------------------------------------------------
(* The Scanner (lines 832-1038).  The operating system's port list is the  *)
(* environment: ports appear and disappear at any time.  A Scan is several *)
(* steps: the call of the enumerator, one GetSession under m.mu.RLock for  *)
(* each port that no pattern excludes, and the sort with the store into    *)
(* cachedPorts under s.mu.  Two callers scan: the goroutine of WatchPorts  *)
(* ("watch"), and the service or a client calling Scan or GetPort ("call", *)
(* cmd/serve.go, line 116).                                                *)

(* The port names in the order sort.Slice gives them (lines 900-902) *)
SortedPorts == <<"COM1", "COM2">>

(* regexp.MatchString for the patterns of the model: "COM2" matches the    *)
(* names that contain COM2, "^COM" the names that begin with COM           *)
MatchString(pattern, name) ==
    <<pattern, name>> \in {<<"COM2", "COM2">>, <<"^COM", "COM1">>, <<"^COM", "COM2">>}

(* Scanner.manager: nil (cmd/scan.go, line 54), or the Manager of the      *)
(* service with its by-name table and its Session objects                  *)
NoManager == [nil |-> TRUE]
TheManager == [nil |-> FALSE, sessions |-> sessions, sess |-> sess]

(* NewScanner, lines 840-855: the patterns compiled, and the manager *)
NewScanner(excludePatterns, manager) ==
    [excludePatterns |-> excludePatterns, manager |-> manager]

(* The scanners of cmd/serve.go (line 110), with no pattern and with one   *)
(* that excludes COM2, and the scanner of cmd/scan.go (line 54)            *)
Scanners ==
    {NewScanner(<<>>, "Manager"), NewScanner(<<"COM2">>, "Manager"), NewScanner(<<>>, "nil")}

(* s.manager as GetSession sees it *)
ScannerManager == IF scanner.manager = "nil" THEN NoManager ELSE TheManager

(* Scanner.isExcluded, lines 936-943 *)
isExcluded(name) ==
    \E i \in DOMAIN scanner.excludePatterns :
        MatchString(scanner.excludePatterns[i], name)

(* Lines 871-893: the PortInfo of an enumerated port; IsOpen and LockedBy  *)
(* stay at their zero values unless a manager is attached and its          *)
(* GetSession finds a session under the name                               *)
PortInfo(name, manager) ==
    LET found == ~manager.nil /\ MapHas(manager.sessions, name)
    IN [Name |-> name,
        IsOpen |-> found,
        LockedBy |-> IF found THEN manager.sess[manager.sessions[name]].ClientID ELSE ""]

(* A Scan that leaves the ports in the order of the enumerator *)
SortByName_Not(ports) == ports

(* sort.Slice by Name, lines 900-902; the enumerator lists a name once *)
SortByName(ports) ==
    LET Listed(p) == \E i \in DOMAIN ports : ports[i].Name = p
        names == SelectSeq(SortedPorts, Listed)
    IN [i \in 1..Len(names) |->
          ports[CHOOSE k \in DOMAIN ports : ports[k].Name = names[i]]]

(* What a Scan that ran alone in this state would return *)
Discovered ==
    LET Listed(p) == p \in present /\ ~isExcluded(p)
        names == SelectSeq(SortedPorts, Listed)
    IN [i \in 1..Len(names) |-> PortInfo(names[i], ScannerManager)]

(* Scanner.portsEqual, lines 1026-1038 *)
portsEqual(a, b) ==
    /\ Len(a) = Len(b)
    /\ \A i \in 1..Len(a) : ~(a[i].Name # b[i].Name \/ a[i].IsOpen # b[i].IsOpen)

WatchStarted == watch.pc # "none"

(* The history field changes: one more when a step changes what a Scan     *)
(* would discover after WatchPorts was called                              *)
Counted(w) ==
    [w EXCEPT !.changes = IF WatchStarted /\ Discovered' # Discovered THEN @ + 1 ELSE @]

(* The environment: a port appears or disappears *)
Plug(p) ==
    /\ p \notin present
    /\ present' = present \cup {p}
    /\ UNCHANGED <<notScanner, cachedPorts, scanner, scans>>
    /\ watch' = Counted(watch)

Unplug(p) ==
    /\ p \in present
    /\ present' = present \ {p}
    /\ UNCHANGED <<notScanner, cachedPorts, scanner, scans>>
    /\ watch' = Counted(watch)

(* A call of the Manager while the loop runs *)
Watched ==
    /\ UNCHANGED <<pending, readerVars, helper, lr, threads>>
    /\ UNCHANGED <<present, cachedPorts, scanner, scans>>
    /\ watch' = Counted(watch)

(* What a step of the watcher or of its environment leaves alone *)
WatchOnly == UNCHANGED <<notScanner, present, cachedPorts, scanner, scans>>

(* A call of Scan (cmd/serve.go, line 116) or of GetPort(name), line 921,  *)
(* by a caller other than the polling loop                                 *)
CallScan(op, name) ==
    /\ scans.call.pc = "idle" /\ scans.call.calls < MaxScans
    /\ scans' = [scans EXCEPT !.call = [NoScan EXCEPT !.pc = "enumerate", !.op = op,
                                                      !.name = name,
                                                      !.calls = scans.call.calls + 1]]
    /\ UNCHANGED <<notScanner, present, watch, cachedPorts, scanner>>

(* Line 858: enumerator.GetDetailedPortsList() fails, and Scan returns the *)
(* error: the polling loop skips the tick (lines 1010-1012), GetPort       *)
(* returns the error (lines 922-924)                                       *)
ScanFails(w) ==
    /\ scans[w].pc = "enumerate"
    /\ scans' = [scans EXCEPT ![w] = [NoScan EXCEPT !.err = ErrEnumerate,
                                                    !.calls = scans[w].calls]]
    /\ watch' = IF w = "watch" THEN [watch EXCEPT !.pc = "select"] ELSE watch
    /\ UNCHANGED <<notScanner, present, cachedPorts, scanner>>

(* Lines 858-869: the enumerator lists the ports that are present; the     *)
(* loop will pass over those a pattern excludes                            *)
ScanEnumerates(w) ==
    /\ scans[w].pc = "enumerate"
    /\ scans' = [scans EXCEPT ![w].pc = "lookup",
                              ![w].todo = {p \in present : ~isExcluded(p)}]
    /\ UNCHANGED <<notScanner, present, watch, cachedPorts, scanner>>

(* Lines 871-896, one iteration of the loop: the PortInfo of the next port *)
(* of the list, with manager.GetSession under m.mu.RLock (lines 272-276);  *)
(* the enumerator lists the ports in any order                             *)
ScanLooksUp(w) ==
    /\ scans[w].pc = "lookup"
    /\ \E name \in scans[w].todo :
          scans' = [scans EXCEPT ![w].todo = @ \ {name},
                                 ![w].result = Append(@, PortInfo(name, ScannerManager))]
    /\ UNCHANGED <<notScanner, present, watch, cachedPorts, scanner>>

(* Lines 900-907: the loop is over; sort.Slice, and the store of the       *)
(* result into s.cachedPorts under s.mu                                    *)
ScanStores(w) ==
    /\ scans[w].pc = "lookup" /\ scans[w].todo = {}
    /\ scans' = [scans EXCEPT ![w].pc = "return", ![w].result = SortByName(@)]
    /\ cachedPorts' = SortByName(scans[w].result)
    /\ UNCHANGED <<notScanner, present, watch, scanner>>

(* GetPort, lines 926-932: the PortInfo with the name that was asked for, *)
(* if there is one                                                        *)
Found(ports, name) ==
    LET Named(p) == p.Name = name
    IN SelectSeq(ports, Named)

(* Line 909, and lines 926-932 of GetPort: the call returns *)
ScanReturns ==
    LET c == scans.call
    IN
    /\ c.pc = "return"
    /\ scans' = [scans EXCEPT
                   !.call = [NoScan EXCEPT
                               !.calls = c.calls,
                               !.out = IF c.op = "Scan" THEN c.result
                                       ELSE Found(c.result, c.name),
                               !.err = IF c.op = "GetPort" /\ Found(c.result, c.name) = <<>>
                                       THEN ErrPortNotFound ELSE Nil]]
    /\ UNCHANGED <<notScanner, present, watch, cachedPorts, scanner>>

(* A WatchPorts that starts its goroutine whatever the interval *)
WatchPorts_AlwaysStarts(interval) ==
    /\ watch.pc = "none"
    /\ watch' = [NoWatch EXCEPT !.interval = interval, !.pc = "select"]
    /\ WatchOnly

(* Lines 992-996 and 998: make(chan struct{}); no goroutine when the       *)
(* interval is 0 or less                                                   *)
WatchPorts(interval) ==
    /\ watch.pc = "none"
    /\ watch' = [NoWatch EXCEPT !.interval = interval,
                                !.pc = IF interval <= 0 THEN "off" ELSE "select"]
    /\ WatchOnly

(* The ticker sends on ticker.C, a channel with one slot; a tick that      *)
(* finds the slot taken is dropped                                         *)
Tick ==
    /\ watch.pc \in {"select", "scan"} /\ ~watch.tick
    /\ watch' = [watch EXCEPT !.tick = TRUE]
    /\ WatchOnly

(* The holder of the stop handle closes it (cmd/serve.go, line 131) *)
CloseStop ==
    /\ watch.pc \notin {"none"} /\ ~watch.stop
    /\ watch' = [watch EXCEPT !.stop = TRUE]
    /\ WatchOnly

(* Lines 1005-1007: the select takes case <-stop and the goroutine returns *)
WatchReturn ==
    /\ watch.pc = "select" /\ watch.stop
    /\ watch' = [watch EXCEPT !.pc = "done"]
    /\ WatchOnly

(* Lines 1005 and 1008-1009: the select takes case <-ticker.C and the loop *)
(* calls Scan                                                              *)
WatchTick ==
    /\ watch.pc = "select" /\ watch.tick
    /\ watch' = [watch EXCEPT !.pc = "scan", !.tick = FALSE]
    /\ scans' = [scans EXCEPT !.watch = [NoScan EXCEPT !.pc = "enumerate", !.op = "Scan"]]
    /\ UNCHANGED <<notScanner, present, cachedPorts, scanner>>

(* Lines 1014-1017: Scan has returned its result; the callback is invoked  *)
(* when the result differs from lastPorts                                  *)
WatchCompare ==
    LET ports == scans.watch.result
    IN
    /\ watch.pc = "scan" /\ scans.watch.pc = "return"
    /\ watch' = IF ~portsEqual(watch.lastPorts, ports)
                THEN [watch EXCEPT !.pc = "select", !.lastPorts = ports, !.calls = @ + 1]
                ELSE [watch EXCEPT !.pc = "select"]
    /\ scans' = [scans EXCEPT !.watch = NoScan]
    /\ UNCHANGED <<notScanner, present, cachedPorts, scanner>>

(* A step of the Scan the polling loop is in *)
WatchScan ==
    \/ ScanEnumerates("watch")
    \/ ScanLooksUp("watch")
    \/ ScanStores("watch")
    \/ WatchCompare

WatchPort == "COM1"
WatchRequest == <<WatchPort, DefaultConfig, "alice", TRUE>>
MayChange == ~WatchStarted \/ watch.changes < MaxChanges

NextWatch ==
    \/ \E p \in Ports : MayChange /\ Plug(p)
    \/ \E p \in Ports : MayChange /\ Unplug(p)
    \/ /\ MayChange /\ Len(sess) < MaxWatchSessions
       /\ OpenPort(WatchRequest[1], WatchRequest[2], WatchRequest[3], WatchRequest[4])
       /\ Watched
    \/ \E id \in 1..MaxWatchSessions : MayChange /\ ClosePort(WatchPort, id) /\ Watched
    \/ \E interval \in {0, 1} : WatchPorts(interval)
    \/ Tick
    \/ CloseStop
    \/ WatchReturn
    \/ WatchTick
    \/ CallScan("Scan", "")
    \/ \E p \in Ports : CallScan("GetPort", p)
    \/ \E w \in Callers : ScanFails(w)
    \/ \E w \in Callers : ScanEnumerates(w)
    \/ \E w \in Callers : ScanLooksUp(w)
    \/ \E w \in Callers : ScanStores(w)
    \/ ScanReturns
    \/ WatchCompare

(* The service after construction, with one of the scanners *)
InitWatch ==
    /\ Constructed /\ ~allowSharedAccess /\ present = {}
    /\ scanner \in Scanners

SpecWatch == InitWatch /\ [][NextWatch]_vars

(* Scan returns and the goroutine is scheduled; a select with several      *)
(* ready cases picks one at random, so it does not pass over <-stop forever *)
SpecWatchFair ==
    /\ InitWatch
    /\ [][NextWatch]_vars
    /\ WF_vars(ScanFails("watch") \/ WatchScan)
    /\ SF_vars(WatchReturn)

----------------------------------------------------------------------------
(* LineReader (lines 697-759).  The channel it reads is fed by a Reader's  *)
(* broadcast; here the environment sends the events and closes the         *)
(* channel.  One step of ReadLine is one pass of its for loop; a pass that *)
(* does not return waits for the next event in the same call.              *)

(* The bytes of the stream: the delimiter and two other bytes *)
delimiter == 0
Bytes == {delimiter, 1, 2}
Chunks == UNION {[1..n -> Bytes] : n \in 1..MaxChunk}

(* Lines 706-717 *)
DefaultMaxLine == 4096
NewLineReader(maxLineSize) ==
    /\ lr.maxLine = 0
    /\ lr' = [NoLineReader EXCEPT
                !.maxLine = IF maxLineSize <= 0 THEN DefaultMaxLine ELSE maxLineSize]
    /\ UNCHANGED notLine

(* The Reader's broadcast sends an event: data read, or a read error *)
Feed(data, err) ==
    /\ lr.maxLine # 0 /\ ~lr.closed
    /\ Len(lr.stream) + Len(data) <= MaxStream
    /\ lr' = [lr EXCEPT !.dataChan = Append(@, [Data |-> data, Error |-> err]),
                        !.stream = @ \o data,
                        !.errors = @ \/ err # Nil]
    /\ UNCHANGED notLine

(* Reader.Stop or Reader.Unsubscribe closes the channel *)
CloseDataChan ==
    /\ lr.maxLine # 0 /\ ~lr.closed
    /\ lr' = [lr EXCEPT !.closed = TRUE]
    /\ UNCHANGED notLine

(* Lines 723-730: the index of the first delimiter in the buffer, 0 if none *)
IndexOf(buffer, b) ==
    IF \E i \in 1..Len(buffer) : buffer[i] = b
    THEN CHOOSE i \in 1..Len(buffer) :
            buffer[i] = b /\ \A j \in 1..(i - 1) : buffer[j] # b
    ELSE 0

LineResult(line, err) == [line |-> line, err |-> err]

(* A pass that cuts an over-long buffer down to maxLine bytes *)
ReadLinePass_Truncates(l) ==
    LET i == IndexOf(l.buffer, delimiter)
        event == Head(l.dataChan)
        buffer == l.buffer \o event.Data
    IN
    IF i # 0
    THEN \* lines 723-730
         [l EXCEPT !.buffer = SubSeq(l.buffer, i + 1, Len(l.buffer)),
                   !.out = Append(@, LineResult(SubSeq(l.buffer, 1, i - 1), Nil))]
    ELSE IF l.dataChan = <<>>
    THEN \* lines 734-742: the channel is closed
         IF l.buffer # <<>>
         THEN [l EXCEPT !.buffer = <<>>, !.out = Append(@, LineResult(l.buffer, Nil))]
         ELSE [l EXCEPT !.out = Append(@, LineResult(<<>>, ErrPortClosed))]
    ELSE IF event.Error # Nil
    THEN \* lines 744-746
         [l EXCEPT !.dataChan = Tail(@), !.out = Append(@, LineResult(<<>>, event.Error))]
    ELSE IF Len(buffer) > l.maxLine
    THEN \* the first maxLine bytes are returned
         [l EXCEPT !.dataChan = Tail(@), !.buffer = <<>>,
                   !.out = Append(@, LineResult(SubSeq(buffer, 1, l.maxLine), Nil))]
    ELSE [l EXCEPT !.dataChan = Tail(@), !.buffer = buffer]

(* Lines 721-758, one pass of the loop.  It is taken when the buffer holds *)
(* a delimiter, an event is waiting or the channel is closed and empty.    *)
ReadLinePass(l) ==
    LET i == IndexOf(l.buffer, delimiter)
        event == Head(l.dataChan)
        buffer == l.buffer \o event.Data
    IN
    IF i # 0
    THEN \* lines 723-730
         [l EXCEPT !.buffer = SubSeq(l.buffer, i + 1, Len(l.buffer)),
                   !.out = Append(@, LineResult(SubSeq(l.buffer, 1, i - 1), Nil))]
    ELSE IF l.dataChan = <<>>
    THEN \* lines 734-742: the channel is closed
         IF l.buffer # <<>>
         THEN [l EXCEPT !.buffer = <<>>, !.out = Append(@, LineResult(l.buffer, Nil))]
         ELSE [l EXCEPT !.out = Append(@, LineResult(<<>>, ErrPortClosed))]
    ELSE IF event.Error # Nil
    THEN \* lines 744-746
         [l EXCEPT !.dataChan = Tail(@), !.out = Append(@, LineResult(<<>>, event.Error))]
    ELSE IF Len(buffer) > l.maxLine
    THEN \* lines 749-757: the whole buffer is returned
         [l EXCEPT !.dataChan = Tail(@), !.buffer = <<>>,
                   !.out = Append(@, LineResult(buffer, Nil))]
    ELSE [l EXCEPT !.dataChan = Tail(@), !.buffer = buffer]

(* The caller stops calling ReadLine once it has returned ErrPortClosed *)
PortClosedReturned ==
    lr.out # <<>> /\ lr.out[Len(lr.out)].err = ErrPortClosed

ReadLine ==
    /\ lr.maxLine # 0 /\ ~PortClosedReturned
    /\ \/ IndexOf(lr.buffer, delimiter) # 0
       \/ lr.dataChan # <<>>
       \/ lr.closed
    /\ lr' = ReadLinePass(lr)
    /\ UNCHANGED notLine

NextLine ==
    \/ \E maxLineSize \in 0..MaxLineSize : NewLineReader(maxLineSize)
    \/ \E data \in Chunks : Feed(data, Nil)
    \/ ~lr.errors /\ Feed(<<>>, HwErr)
    \/ CloseDataChan
    \/ ReadLine

SpecLine == InitReader /\ [][NextLine]_vars

----------------------------------------------------------------------------
(* The Manager lock by lock.  A task takes one step per lock it acquires   *)
(* and one per hardware call that returns; what it does between two such   *)
(* points touches only what the locks it holds protect.  The region under  *)
(* m.mu.RLock (ValidateSession) reads the tables and acquires nothing, so  *)
(* it is one step, taken when no task holds m.mu for writing.  Which task  *)
(* holds which lock follows from the places the tasks are at.              *)
(* The values the calls return are those of the actions of Spec and       *)
(* SpecData; the steps here leave ret alone, apart from OpenPort.          *)

LockPort == DataPort
LockRequest == <<LockPort, DefaultConfig, "alice", TRUE>>
LockIDs == 1..MaxLockSessions
Tasks == DOMAIN threads

(* The methods of the Manager a task calls; readLoop calls Read *)
LockOps ==
    {"OpenPort", "ClosePort", "CloseAll", "ValidateSession", "Read", "Write",
     "Flush", "SubscribeToReads"}
ManagerOps == LockOps \cup {"Configure"}

(* m.mu released by closeSessionLocked right after closed.Store(true) *)
HoldsManagerMu_UntilStore(t) ==
    /\ threads[t].pc = "mlocked"
    /\ threads[t].op \in {"OpenPort", "ClosePort", "CloseAll"}

(* m.mu is held for writing from m.mu.Lock() to the return of OpenPort,    *)
(* ClosePort or CloseAll (lines 184-185, 235-236, 406-407), so also while  *)
(* closeSessionLocked waits for and holds readersMu; SubscribeToReads      *)
(* waits for readersMu with m.mu released (lines 416 and 423)              *)
HoldsManagerMu(t) ==
    /\ threads[t].pc \in {"mlocked", "rdlock", "rdlocked", "closing"}
    /\ threads[t].op \in {"OpenPort", "ClosePort", "CloseAll"}

(* session.mu of s is held from session.mu.Lock() to the return of Write,  *)
(* Read, Configure or Flush (lines 313-314, 335-336, 362-363, 437-438)     *)
HoldsSessionMu(t, s) == threads[t].pc = "hw" /\ threads[t].s = s

(* A SubscribeToReads that locked readersMu before it validated the       *)
(* session would hold it while it waits for m.mu                           *)
HoldsReadersMu_BeforeValidate(t, s) ==
    \/ threads[t].pc \in {"rdlocked", "appending"} /\ threads[t].s = s
    \/ threads[t].pc \in {"rlock", "rdlock"} /\ threads[t].op = "SubscribeToReads"

(* session.readersMu of s is held between Lock and Unlock (lines 255-260,  *)
(* 423-425)                                                                *)
HoldsReadersMu(t, s) == threads[t].pc \in {"rdlocked", "appending"} /\ threads[t].s = s

(* A mutex that lets every task in *)
MutexFree_Always(holders) == TRUE

(* sync.Mutex.Lock and sync.RWMutex.Lock return once no task holds the lock *)
MutexFree(holders) == holders = {}

(* The task goes on at pc; a task that returns is in no call any more *)
At(t, pc) == [threads EXCEPT ![t].pc = pc]
Return(t) == [threads EXCEPT ![t] = Task]

(* A client calls a method of the Manager *)
Call(t, op, cfg) ==
    /\ threads[t].pc = "idle"
    /\ threads' = [threads EXCEPT ![t] =
                      [Task EXCEPT !.op = op, !.cfg = cfg,
                                   !.pc = IF op \in {"OpenPort", "ClosePort", "CloseAll"}
                                          THEN "mlock" ELSE "rlock"]]
    /\ UNCHANGED <<managerVars, notThreads>>

(* m.mu.Lock() *)
ManagerLock(t) ==
    /\ threads[t].pc = "mlock"
    /\ MutexFree({u \in Tasks : HoldsManagerMu(u)})
    /\ threads' = At(t, "mlocked")
    /\ UNCHANGED <<managerVars, notThreads>>

(* OpenPort under m.mu, lines 187-230 *)
LockedOpenPort(t) ==
    /\ threads[t].pc = "mlocked" /\ threads[t].op = "OpenPort"
    /\ OpenPort(LockRequest[1], LockRequest[2], LockRequest[3], LockRequest[4])
    /\ threads' = Return(t)
    /\ UNCHANGED notThreads

(* ClosePort, lines 238-248, and closeSessionLocked, line 252: the checks  *)
(* and session.closed.Store(true)                                          *)
LockedClosePort(t, sessionID) ==
    /\ threads[t].pc = "mlocked" /\ threads[t].op = "ClosePort"
    /\ UNCHANGED <<allowSharedAccess, sessions, sessionsByID, leaked, chans, ret, notThreads>>
    /\ IF ~MapHas(sessions, LockPort)
       THEN threads' = Return(t) /\ UNCHANGED sess
       ELSE IF sess[sessions[LockPort]].ID # sessionID
       THEN threads' = Return(t) /\ UNCHANGED sess
       ELSE /\ sess' = [sess EXCEPT ![sessions[LockPort]].closed = TRUE]
            /\ threads' = [threads EXCEPT ![t].pc = "rdlock", ![t].s = sessions[LockPort]]

(* CloseAll, lines 409-411: the next session of m.sessions, or the return  *)
LockedCloseAll(t) ==
    /\ threads[t].pc = "mlocked" /\ threads[t].op = "CloseAll"
    /\ UNCHANGED <<allowSharedAccess, sessions, sessionsByID, leaked, chans, ret, notThreads>>
    /\ IF sessions = EmptyMap
       THEN /\ threads' = Return(t)
            /\ UNCHANGED sess
       ELSE \E p \in DOMAIN sessions :
               /\ sess' = [sess EXCEPT ![sessions[p]].closed = TRUE]
               /\ threads' = [threads EXCEPT ![t].pc = "rdlock", ![t].s = sessions[p]]

(* session.readersMu.Lock(), lines 255 and 423 *)
ReadersLock(t) ==
    /\ threads[t].pc = "rdlock"
    /\ MutexFree({u \in Tasks : HoldsReadersMu(u, threads[t].s)})
    /\ threads' = At(t, IF threads[t].op = "SubscribeToReads" THEN "appending" ELSE "rdlocked")
    /\ UNCHANGED <<managerVars, notThreads>>

(* closeSessionLocked, lines 256-263: the channels are closed, readersMu   *)
(* is unlocked and port.Close() is called                                  *)
CloseReaders(t) ==
    LET s == threads[t].s
    IN
    /\ threads[t].pc = "rdlocked"
    /\ chans' = [c \in DOMAIN chans |->
                   IF \E i \in DOMAIN sess[s].readers : sess[s].readers[i] = c
                   THEN TRUE ELSE chans[c]]
    /\ sess' = [sess EXCEPT ![s].readers = <<>>]
    /\ threads' = At(t, "closing")
    /\ UNCHANGED <<allowSharedAccess, sessions, sessionsByID, leaked, ret, notThreads>>

(* closeSessionLocked, lines 263-268: port.Close() returns closeErr and    *)
(* the session leaves both tables; ClosePort returns, CloseAll goes on     *)
CloseReturns(t) ==
    LET s == threads[t].s
    IN
    /\ threads[t].pc = "closing"
    /\ sess' = [sess EXCEPT ![s].portOpen = FALSE]
    /\ sessions' = MapDelete(sessions, sess[s].PortName)
    /\ sessionsByID' = MapDelete(sessionsByID, sess[s].ID)
    /\ UNCHANGED <<allowSharedAccess, leaked, chans, ret, notThreads>>
    /\ threads' = IF threads[t].op = "ClosePort"
                  THEN Return(t)
                  ELSE [threads EXCEPT ![t].pc = "mlocked", ![t].s = NoSession]

(* Lines 308-311, 330-333, 353-360, 416-419, 432-435: ValidateSession      *)
(* under m.mu.RLock, and Validate of the config in Configure; a failure    *)
(* returns, a success goes on to the lock the method takes                 *)
Validated(t, sessionID) ==
    LET op == threads[t].op
        v == ValidateSession(LockPort, sessionID)
    IN
    /\ threads[t].pc = "rlock" /\ op \in ManagerOps
    /\ MutexFree({u \in Tasks : HoldsManagerMu(u)})
    /\ UNCHANGED <<managerVars, notThreads>>
    /\ threads' = IF v.err # Nil THEN Return(t)
                  ELSE IF op = "ValidateSession" THEN Return(t)
                  ELSE IF op = "Configure" /\ Validate(threads[t].cfg) # Nil THEN Return(t)
                  ELSE [threads EXCEPT
                          ![t].s = v.session,
                          ![t].pc = IF op = "SubscribeToReads" THEN "rdlock" ELSE "lock"]

(* The hardware call a method makes first under session.mu *)
FirstCall(op) ==
    CASE op = "Read" -> "read"
      [] op = "Write" -> "write"
      [] op = "Flush" -> "reset"
      [] op = "Configure" -> "setmode"
      [] op = "readLoop" -> "read"

(* session.mu.Lock(), lines 313, 335, 362 and 437, and the hardware call   *)
(* that follows it                                                         *)
SessionLock(t) ==
    /\ threads[t].pc = "lock"
    /\ MutexFree({u \in Tasks : HoldsSessionMu(u, threads[t].s)})
    /\ threads' = [threads EXCEPT ![t].pc = "hw", ![t].call = FirstCall(threads[t].op)]
    /\ UNCHANGED <<managerVars, notThreads>>

(* The hardware call in flight returns; the method goes on to its next     *)
(* hardware call or returns, which unlocks session.mu                      *)
HardwareReturns(t) ==
    LET s == threads[t].s
        op == threads[t].op
        call == threads[t].call
        cfg == threads[t].cfg
    IN
    /\ threads[t].pc = "hw" /\ op \in ManagerOps
    /\ UNCHANGED <<allowSharedAccess, sessions, sessionsByID, leaked, chans, ret, notThreads>>
    /\ CASE call = "read" ->
              \E n \in 0..MaxLen, err \in {Nil, HwErr} :
                 /\ sess' = [sess EXCEPT ![s] = ReadStats(@, n, err)]
                 /\ threads' = Return(t)
         [] call = "write" ->
              \E len \in 0..MaxLen : \E n \in 0..len, err \in {Nil, HwErr} :
                 /\ sess' = [sess EXCEPT ![s] = WriteStats(@, n, err)]
                 /\ threads' = Return(t)
         [] call = "reset" ->
              /\ threads' = Return(t)
              /\ UNCHANGED sess
         [] call = "setmode" ->
              \/ threads' = Return(t) /\ UNCHANGED sess
              \/ /\ cfg.ReadTimeoutMs > 0
                 /\ threads' = [threads EXCEPT ![t].call = "settimeout"]
                 /\ UNCHANGED sess
              \/ /\ ~(cfg.ReadTimeoutMs > 0)
                 /\ sess' = [sess EXCEPT ![s].Config = cfg]
                 /\ threads' = Return(t)
         [] call = "settimeout" ->
              \/ threads' = Return(t) /\ UNCHANGED sess
              \/ /\ sess' = [sess EXCEPT ![s].Config = cfg]
                 /\ threads' = Return(t)
    /\ DataDone' <= MaxData \/ DataDone' = DataDone

(* SubscribeToReads, lines 421-427: the channel is appended under          *)
(* readersMu                                                               *)
SubscribeAppends(t) ==
    LET s == threads[t].s
    IN
    /\ threads[t].pc = "appending"
    /\ chans' = Append(chans, FALSE)
    /\ sess' = [sess EXCEPT ![s].readers = Append(@, Len(chans) + 1)]
    /\ threads' = Return(t)
    /\ UNCHANGED <<allowSharedAccess, sessions, sessionsByID, leaked, ret, notThreads>>

(* The calls of op that tasks are in *)
InCall(op) == Cardinality({t \in Tasks : threads[t].op = op})

(* A call of a method of the Manager; the calls that add a session or a    *)
(* channel are made while the model has room for one                       *)
BoundedCall(t, op, cfg) ==
    /\ op = "OpenPort" => Len(sess) + InCall("OpenPort") < MaxLockSessions
    /\ op = "SubscribeToReads" => DataDone + InCall("SubscribeToReads") < MaxData
    /\ Call(t, op, cfg)

(* The steps of the tasks that are inside a method of the Manager *)
LockSteps ==
    \/ \E t \in Tasks : ManagerLock(t)
    \/ \E t \in Tasks : LockedOpenPort(t)
    \/ \E t \in Tasks, id \in LockIDs : LockedClosePort(t, id)
    \/ \E t \in Tasks : LockedCloseAll(t)
    \/ \E t \in Tasks : ReadersLock(t)
    \/ \E t \in Tasks : CloseReaders(t)
    \/ \E t \in Tasks : CloseReturns(t)
    \/ \E t \in Tasks, id \in LockIDs : Validated(t, id)
    \/ \E t \in Tasks : SessionLock(t)
    \/ \E t \in Tasks : HardwareReturns(t)
    \/ \E t \in Tasks : SubscribeAppends(t)

NextLock ==
    \/ \E t \in Tasks, op \in LockOps : BoundedCall(t, op, DefaultConfig)
    \/ \E t \in Tasks, cfg \in {CfgMin, DefaultConfig, CfgBadBaud} : Call(t, "Configure", cfg)
    \/ LockSteps

SpecLock == InitReader /\ [][NextLock]_vars

----------------------------------------------------------------------------
(* The Reader and the Scanner lock by lock, next to the Manager.  Tasks    *)
(* call Scan and the methods of one Reader attached to the first session   *)
(* of LockPort; the readLoop that Start spawns is one more task.  The      *)
(* subscribers receive outside these calls and are not followed here.      *)

(* subMu is held for writing between Lock and Unlock (lines 533-538,       *)
(* 545-547, 554-555) and for reading inside broadcast (lines 609-610)      *)
HoldsSubMu(t) == threads[t].pc = "sublocked"

(* A broadcast that takes no lock *)
ReadsSubMu_Never(t) == FALSE

ReadsSubMu(t) == threads[t].pc = "broadcasting"

(* Scanner.mu is held while Scan stores its result (lines 905-907) *)
HoldsScannerMu(t) == threads[t].pc = "caching"

(* Where a task is after its call or its readLoop has returned *)
Finished(t) ==
    IF threads[t].op = "readLoop"
    THEN [threads EXCEPT ![t] = [Task EXCEPT !.op = "readLoop", !.pc = "done"]]
    ELSE Return(t)

(* Subscribe and Unsubscribe, lines 543-545 and 554: up to r.subMu.Lock()  *)
SubscriberCall(t, op) ==
    /\ threads[t].pc = "idle"
    /\ threads' = [threads EXCEPT ![t] = [Task EXCEPT !.op = op, !.pc = "sublock"]]
    /\ UNCHANGED <<managerVars, notThreads>>

(* Reader.Start, lines 506-508: running.Load(), then ValidateSession *)
StartCall(t) ==
    /\ threads[t].pc = "idle"
    /\ threads' = IF running THEN threads
                  ELSE [threads EXCEPT ![t] = [Task EXCEPT !.op = "Start", !.pc = "rlock"]]
    /\ UNCHANGED <<managerVars, notThreads>>

(* Reader.Start, lines 511-514: ValidateSession under m.mu.RLock *)
StartValidated(t) ==
    /\ threads[t].pc = "rlock" /\ threads[t].op = "Start"
    /\ MutexFree({u \in Tasks : HoldsManagerMu(u)})
    /\ threads' = IF ValidateSession(ReaderPort, ReaderSession).err # Nil
                  THEN Return(t) ELSE At(t, "starting")
    /\ UNCHANGED <<managerVars, notThreads>>

(* Reader.Start, lines 516-520: running.Store(true) and the go statement,  *)
(* which makes the goroutine of readLoop                                   *)
StartSpawns(t) ==
    /\ threads[t].pc = "starting"
    /\ running' = TRUE
    /\ threads' = Append(Return(t), [Task EXCEPT !.op = "readLoop", !.pc = "for"])
    /\ UNCHANGED <<managerVars, pending, helper, scannerVars, lr>>
    /\ UNCHANGED <<stopChan, subscribers, events, procs, panicked>>

(* Reader.Stop, line 525, called by a client or by the readLoop (lines 574 *)
(* and 599): running.Load()                                                *)
StopBegins(t) ==
    /\ \/ threads[t].pc = "idle"
       \/ threads[t].pc = "stop"
    /\ threads' = IF ~running THEN Finished(t)
                  ELSE [threads EXCEPT ![t].pc = "stopping",
                                       ![t].op = IF @ = "readLoop" THEN @ ELSE "Stop"]
    /\ UNCHANGED <<managerVars, notThreads>>

(* Reader.Stop, line 529: running.Store(false) *)
StopStores(t) ==
    /\ threads[t].pc = "stopping"
    /\ running' = FALSE
    /\ threads' = At(t, "stopClose")
    /\ UNCHANGED <<managerVars, pending, helper, scannerVars, lr>>
    /\ UNCHANGED <<stopChan, subscribers, events, procs, panicked>>

(* Reader.Stop, line 530: close(r.stopChan), which panics when another     *)
(* Stop has closed the channel                                             *)
StopCloses(t) ==
    /\ threads[t].pc = "stopClose"
    /\ UNCHANGED running
    /\ stopChan' = CloseChan(stopChan).closed
    /\ panicked' = CloseChan(stopChan).panic
    /\ threads' = At(t, "sublock")
    /\ UNCHANGED <<managerVars, pending, helper, scannerVars, lr>>
    /\ UNCHANGED <<subscribers, events, procs>>

(* r.subMu.Lock(), lines 533, 545 and 554 *)
SubLock(t) ==
    /\ threads[t].pc = "sublock"
    /\ MutexFree({u \in Tasks : HoldsSubMu(u) \/ ReadsSubMu(u)})
    /\ threads' = At(t, "sublocked")
    /\ UNCHANGED <<managerVars, notThreads>>

(* What Stop (lines 534-537), Subscribe (line 546) and Unsubscribe (lines  *)
(* 557-563) do under subMu, and their return                               *)
SubLocked(t) ==
    /\ threads[t].pc = "sublocked"
    /\ threads' = Finished(t)
    /\ UNCHANGED <<managerVars, pending, helper, scannerVars, lr>>
    /\ UNCHANGED <<running, stopChan, procs>>
    /\ CASE threads[t].op = "Subscribe" ->
              /\ events' = Append(events, NewChan)
              /\ subscribers' = Append(subscribers, Len(events) + 1)
              /\ UNCHANGED panicked
         [] threads[t].op = "Unsubscribe" ->
              \E ch \in DOMAIN events :
                 IF ch \in Range(subscribers)
                 THEN /\ events' = [events EXCEPT ![ch].closed = CloseChan(@).closed]
                      /\ panicked' = CloseChan(events[ch].closed).panic
                      /\ subscribers' = SelectSeq(subscribers, LAMBDA c : c # ch)
                 ELSE UNCHANGED <<events, panicked, subscribers>>
         [] OTHER ->
              /\ events' = [c \in DOMAIN events |->
                              IF c \in Range(subscribers)
                              THEN [events[c] EXCEPT
                                      !.closed = CloseChan(events[c].closed).closed]
                              ELSE events[c]]
              /\ panicked' = \E c \in Range(subscribers) : CloseChan(events[c].closed).panic
              /\ subscribers' = <<>>

(* readLoop, line 570: running.Load() *)
LoopTop(t) ==
    /\ threads[t].op = "readLoop" /\ threads[t].pc = "for"
    /\ threads' = IF ~running THEN Finished(t) ELSE At(t, "select")
    /\ UNCHANGED <<managerVars, notThreads>>

(* readLoop, lines 571-577: the select, in which the context of the loop   *)
(* is done or not; it is done by the time the loop has made MaxEvents      *)
(* events                                                                  *)
LoopSelects(t) ==
    /\ threads[t].op = "readLoop" /\ threads[t].pc = "select"
    /\ \E done \in {TRUE} \cup {d \in {FALSE} : threads[t].sequence < MaxEvents} :
       \E c \in SelectCases(done, stopChan) :
          threads' = CASE c = "stop" -> At(t, "stop")
                       [] c = "done" -> Finished(t)
                       [] c = "read" -> At(t, "rlock")
    /\ UNCHANGED <<managerVars, notThreads>>

(* The event readLoop makes of a Read that returned n bytes and err, lines *)
(* 580-595; a zero-length read without an error makes none                 *)
LoopEvent(t, n, err) ==
    IF err = Nil /\ n = 0
    THEN [threads EXCEPT ![t].pc = "for", ![t].s = NoSession, ![t].call = "none"]
    ELSE [threads EXCEPT ![t].pc = "subrlock", ![t].s = NoSession, ![t].call = "none",
                         ![t].sequence = (@ + 1) % SeqModulus,
                         ![t].event = err]

(* readLoop, line 578: Manager.Read, its ValidateSession under m.mu.RLock  *)
LoopValidated(t) ==
    LET v == ValidateSession(ReaderPort, ReaderSession)
    IN
    /\ threads[t].op = "readLoop" /\ threads[t].pc = "rlock"
    /\ MutexFree({u \in Tasks : HoldsManagerMu(u)})
    /\ threads' = IF v.err # Nil THEN LoopEvent(t, 0, v.err)
                  ELSE [threads EXCEPT ![t].s = v.session, ![t].pc = "lock"]
    /\ UNCHANGED <<managerVars, notThreads>>

(* readLoop, line 578: port.Read returns inside Manager.Read, which counts *)
(* and unlocks session.mu                                                  *)
LoopReadReturns(t) ==
    /\ threads[t].op = "readLoop" /\ threads[t].pc = "hw"
    /\ \E n \in 0..MaxLen, err \in {Nil, HwErr} :
          /\ sess' = [sess EXCEPT ![threads[t].s] = ReadStats(@, n, err)]
          /\ threads' = LoopEvent(t, n, err)
    /\ UNCHANGED <<allowSharedAccess, sessions, sessionsByID, leaked, chans, ret, notThreads>>
    /\ DataDone' <= MaxData \/ DataDone' = DataDone

(* broadcast, lines 609-612: r.subMu.RLock(), and the range statement     *)
(* reads r.subscribers once, before its first iteration                    *)
BroadcastLock(t) ==
    /\ threads[t].pc = "subrlock"
    /\ MutexFree({u \in Tasks : HoldsSubMu(u)})
    /\ threads' = [threads EXCEPT ![t].pc = "broadcasting", ![t].subs = subscribers]
    /\ UNCHANGED <<managerVars, notThreads>>

(* broadcast, lines 612-618, and readLoop, lines 597-603: the sends to the *)
(* channels the range statement read, then r.Stop() after a fatal error;   *)
(* a send on a closed channel panics                                       *)
BroadcastSends(t) ==
    /\ threads[t].pc = "broadcasting"
    /\ events' = broadcast(events, threads[t].subs,
                           DataEvent(threads[t].sequence, threads[t].event))
    /\ panicked' = \E c \in Range(threads[t].subs) : events[c].closed
    /\ threads' = [threads EXCEPT ![t].event = NoEvent, ![t].subs = <<>>,
                                  ![t].pc = IF Fatal(threads[t].event) THEN "stop" ELSE "for"]
    /\ UNCHANGED <<managerVars, pending, helper, scannerVars, lr>>
    /\ UNCHANGED <<running, stopChan, subscribers, procs>>

(* A call of Scanner.Scan by a task *)
ScanCall(t) ==
    /\ threads[t].pc = "idle"
    /\ threads' = [threads EXCEPT ![t] = [Task EXCEPT !.op = "Scan", !.pc = "enumerate"]]
    /\ UNCHANGED <<managerVars, notThreads>>

(* Scanner.Scan, lines 858-869: the port list without the ports a pattern  *)
(* excludes; an error of the enumerator returns                            *)
ScanLists(t) ==
    LET todo == {p \in present : ~isExcluded(p)}
    IN
    /\ threads[t].pc = "enumerate"
    /\ \/ threads' = Return(t)
       \/ threads' = [threads EXCEPT ![t].todo = todo,
                                     ![t].pc = IF todo = {} THEN "scanlock" ELSE "rlock"]
    /\ UNCHANGED <<managerVars, notThreads>>

(* Scanner.Scan, lines 871-896: GetSession under m.mu.RLock for the next   *)
(* port of the list                                                        *)
ScanGetsSession(t) ==
    /\ threads[t].pc = "rlock" /\ threads[t].op = "Scan"
    /\ MutexFree({u \in Tasks : HoldsManagerMu(u)})
    /\ \E name \in threads[t].todo :
          threads' = [threads EXCEPT
                        ![t].todo = @ \ {name},
                        ![t].ports = Append(@, PortInfo(name, ScannerManager)),
                        ![t].pc = IF threads[t].todo = {name} THEN "scanlock" ELSE "rlock"]
    /\ UNCHANGED <<managerVars, notThreads>>

(* Scanner.Scan, line 905: s.mu.Lock() *)
ScannerLock(t) ==
    /\ threads[t].pc = "scanlock"
    /\ MutexFree({u \in Tasks : HoldsScannerMu(u)})
    /\ threads' = At(t, "caching")
    /\ UNCHANGED <<managerVars, notThreads>>

(* Scanner.Scan, lines 906-909: the result is stored and returned *)
ScanCaches(t) ==
    /\ threads[t].pc = "caching"
    /\ cachedPorts' = SortByName(threads[t].ports)
    /\ threads' = Return(t)
    /\ UNCHANGED <<managerVars, pending, readerVars, helper, lr>>
    /\ UNCHANGED <<present, watch, scanner, scans>>

(* The first client opens the port, calls the methods of the Manager that  *)
(* work on a session while the session it names is registered, and scans;  *)
(* the second one closes sessions and drives the Reader.  A session can    *)
(* be closed at any point of a call that was made while it was registered. *)
SessionClient == 1
ReaderClient == LockThreads
SessionOps ==
    {"OpenPort", "ValidateSession", "Read", "Write", "Flush", "Configure",
     "SubscribeToReads"}

NextLocks ==
    \/ \E op \in SessionOps :
          /\ Alive /\ (op # "OpenPort" => MapHas(sessions, LockPort))
          /\ BoundedCall(SessionClient, op, DefaultConfig)
    \/ \E op \in {"ClosePort", "CloseAll"} : Alive /\ Call(ReaderClient, op, DefaultConfig)
    \/ Alive /\ LockSteps
    \/ \E t \in {ReaderClient} :
          /\ Alive /\ Len(events) + InCall("Subscribe") < MaxSubscribers
          /\ SubscriberCall(t, "Subscribe")
    \/ \E t \in {ReaderClient} : Alive /\ events # <<>> /\ SubscriberCall(t, "Unsubscribe")
    \/ \E t \in {ReaderClient} :
          Alive /\ Len(threads) + InCall("Start") < LockThreads + MaxLoops /\ StartCall(t)
    \/ \E t \in Tasks : Alive /\ StartValidated(t)
    \/ \E t \in Tasks : Alive /\ StartSpawns(t)
    \/ \E t \in Tasks : Alive /\ StopBegins(t)
    \/ \E t \in Tasks : Alive /\ StopStores(t)
    \/ \E t \in Tasks : Alive /\ StopCloses(t)
    \/ \E t \in Tasks : Alive /\ SubLock(t)
    \/ \E t \in Tasks : Alive /\ SubLocked(t)
    \/ \E t \in Tasks : Alive /\ LoopTop(t)
    \/ \E t \in Tasks : Alive /\ LoopSelects(t)
    \/ \E t \in Tasks : Alive /\ LoopValidated(t)
    \/ \E t \in Tasks : Alive /\ LoopReadReturns(t)
    \/ \E t \in Tasks : Alive /\ BroadcastLock(t)
    \/ \E t \in Tasks : Alive /\ BroadcastSends(t)
    \/ \E t \in {SessionClient} : Alive /\ ScanCall(t)
    \/ \E t \in Tasks : Alive /\ ScanLists(t)
    \/ \E t \in Tasks : Alive /\ ScanGetsSession(t)
    \/ \E t \in Tasks : Alive /\ ScannerLock(t)
    \/ \E t \in Tasks : Alive /\ ScanCaches(t)

(* The machine has the serial port LockPort and the service runs without   *)
(* shared access                                                           *)
InitLocks ==
    /\ Constructed /\ ~allowSharedAccess /\ present = {LockPort}
    /\ scanner = [excludePatterns |-> <<>>, manager |-> "Manager"]

SpecLocks == InitLocks /\ [][NextLocks]_vars

----------------------------------------------------------------------------
(* Properties of the registry *)

Refs == DOMAIN sess

(* The sessions of port name p that were opened and are not closed yet *)
OpenSessions(p) == {i \in Refs : sess[i].PortName = p /\ (~sess[i].closed \/ sess[i].portOpen)}

(* The session opened last on port name p, NoSession when there is none *)
LastOpened(p) ==
    IF \E i \in Refs : sess[i].PortName = p
    THEN CHOOSE i \in Refs : /\ sess[i].PortName = p
                             /\ \A j \in Refs : sess[j].PortName = p => j <= i
    ELSE NoSession

(* Identifiers a caller may present: the issued ones, and ones never issued *)
AnyIDs == 0..(MaxSessions + MaxDataSessions)

(* C1: with shared access disabled every port name has at most one open    *)
(* session; while it has one, OpenPort is refused with ErrPortLocked for   *)
(* either value of the exclusive flag, and an OpenPort that got past that  *)
(* check found no open session on its port name.                           *)
C1_OneOpenSessionPerPort ==
    ~allowSharedAccess =>
        \A p \in Ports :
            /\ Cardinality(OpenSessions(p)) <= 1
            /\ OpenSessions(p) # {} => \A e \in BOOLEAN : PortLocked(p, e)
            /\ (ret.op = "OpenPort" /\ ret.portName = p /\ ret.err = Nil)
                   => OpenSessions(p) = {ret.session}
            /\ (ret.op = "OpenPort" /\ ret.portName = p
                   /\ ret.err \in {ErrOpenFailed, ErrSetReadTimeout})
                   => OpenSessions(p) = {}

C1_Witness ==
    /\ ~allowSharedAccess
    /\ ret.op = "OpenPort" /\ ret.err = ErrPortLocked /\ ~ret.exclusive
    /\ MapHas(sessions, ret.portName)
    /\ ~sess[sessions[ret.portName]].Exclusive

(* C2: while a session opened with exclusive=true is open on a port name,  *)
(* no other session of that port name has its hardware handle open.        *)
C2_ExclusiveSessionIsAlone ==
    \A i \in Refs, j \in Refs :
        (/\ i # j
         /\ sess[i].Exclusive /\ ~sess[i].closed
         /\ sess[j].PortName = sess[i].PortName)
        => ~sess[j].portOpen

(* C3: when the session opened last on a port name has not been closed, an *)
(* OpenPort on that port name with exclusive=true and a valid config fails *)
(* with ErrPortLocked, opens no handle and changes neither lookup table,   *)
(* for both values of allowSharedAccess.                                   *)
C3_SecondExclusiveOpenIsLocked ==
    [][\A rq \in OpenRequests :
          (/\ rq[4]
           /\ Validate(rq[2]) = Nil
           /\ LastOpened(rq[1]) # NoSession
           /\ ~sess[LastOpened(rq[1])].closed
           /\ OpenPort(rq[1], rq[2], rq[3], rq[4]))
          => (/\ ret'.err = ErrPortLocked
              /\ UNCHANGED <<sessions, sessionsByID, sess, leaked>>)]_vars

C3_Witness ==
    /\ allowSharedAccess
    /\ ret.op = "OpenPort" /\ ret.err = ErrPortLocked /\ ret.exclusive
    /\ MapHas(sessions, ret.portName)
    /\ ~sess[sessions[ret.portName]].Exclusive

(* C4: right after OpenPort returned session s for port name p,            *)
(* ValidateSession(p, s.ID) returns s without error and ValidateSession    *)
(* with any other identifier fails with ErrInvalidSession.                 *)
C4_OpenThenValidate ==
    (ret.op = "OpenPort" /\ ret.err = Nil) =>
        /\ ValidateSession(ret.portName, sess[ret.session].ID)
               = [err |-> Nil, session |-> ret.session]
        /\ \A x \in AnyIDs :
               x # sess[ret.session].ID
               => ValidateSession(ret.portName, x).err = ErrInvalidSession

C4_Witness ==
    /\ ret.op = "OpenPort" /\ ret.err = Nil
    /\ Len(sess) >= 2
    /\ ValidateSession(ret.portName, sess[ret.session].ID).session = ret.session

----------------------------------------------------------------------------
(* Properties of the data path *)

(* Session i is open, and was opened with exclusive=false *)
OpenShared(i) == ~sess[i].Exclusive /\ ~sess[i].closed /\ sess[i].portOpen

(* C5: with shared access enabled, two sessions opened with                *)
(* exclusive=false on one port name both stay usable: ValidateSession, the *)
(* gate of Read and Write, accepts the identifier of each and returns it.  *)
C5_SharedSessionsStayUsable ==
    allowSharedAccess =>
        \A i \in Refs, j \in Refs :
            (i < j /\ sess[i].PortName = sess[j].PortName /\ OpenShared(i) /\ OpenShared(j))
            => /\ ValidateSession(sess[i].PortName, sess[i].ID) = [err |-> Nil, session |-> i]
               /\ ValidateSession(sess[j].PortName, sess[j].ID) = [err |-> Nil, session |-> j]

(* Session identifier id was issued for port name p and that session has   *)
(* been closed                                                             *)
ClosedID(p, id) ==
    \E i \in Refs : sess[i].PortName = p /\ sess[i].ID = id /\ sess[i].closed

(* Any call a client can make with port name p and identifier id *)
CallWith(p, id) ==
    \/ CallValidateSession(p, id)
    \/ \E len \in 0..MaxLen : Enter("Write", p, id, len)
    \/ Enter("Read", p, id, MaxLen)
    \/ \E c \in DataConfigs : Enter("Configure", p, id, c)
    \/ Enter("Flush", p, id, 0)
    \/ Enter("SubscribeToReads", p, id, 0)
    \/ ClosePort(p, id)

Unchanged == UNCHANGED <<sessions, sessionsByID, sess, leaked, chans>>

(* C6: once the session with identifier id on port name p has been closed, *)
(* every ValidateSession, Read, Write, Configure, Flush, SubscribeToReads  *)
(* and ClosePort call with (p, id) fails with ErrPortNotOpen or            *)
(* ErrInvalidSession and changes nothing, also after p has been reopened.  *)
C6_ClosedIdentifierStaysInvalid ==
    [][\A id \in DataIDs :
          (ClosedID(DataPort, id) /\ CallWith(DataPort, id))
          => (ret'.err \in {ErrPortNotOpen, ErrInvalidSession} /\ Unchanged)]_vars

C6_Witness ==
    /\ ret.op \in {"Read", "Write", "Configure", "Flush"}
    /\ ret.err = ErrInvalidSession
    /\ Len(sess) = 2
    /\ sess[1].closed /\ ~sess[2].closed
    /\ sessions[DataPort] = 2

(* C7: ClosePort fails with ErrPortNotOpen when no session is registered   *)
(* for the port name and with ErrInvalidSession when the registered        *)
(* session has another identifier; either way the lookup tables, the       *)
(* sessions (closed flag, subscriber channels, handle) and the channels    *)
(* stay as they were.                                                      *)
C7_ClosePortRejects ==
    [][\A id \in DataIDs :
          ClosePort(DataPort, id)
          => /\ ~MapHas(sessions, DataPort)
                  => (ret'.err = ErrPortNotOpen /\ Unchanged)
             /\ (MapHas(sessions, DataPort) /\ sess[sessions[DataPort]].ID # id)
                  => (ret'.err = ErrInvalidSession /\ Unchanged)]_vars

C7_Witness ==
    /\ ret.op = "ClosePort" /\ ret.err = ErrInvalidSession
    /\ MapHas(sessions, DataPort)
    /\ sess[sessions[DataPort]].readers # <<>>
    /\ \A c \in DOMAIN chans : ~chans[c]
    /\ sess[sessions[DataPort]].portOpen /\ ~sess[sessions[DataPort]].closed

(* C8: a ClosePort that passes validation removes the session from both    *)
(* lookup tables, marks it closed and releases its handle whether          *)
(* port.Close() reports an error or not; it returns that error, and the    *)
(* port name is free for OpenPort afterwards.                              *)
C8_ClosePortAlwaysUnregisters ==
    [][\A p \in Ports, id \in SessionIDs :
          (/\ MapHas(sessions, p)
           /\ sess[sessions[p]].ID = id
           /\ ClosePort(p, id))
          => /\ ~MapHas(sessions', p)
             /\ ~MapHas(sessionsByID', id)
             /\ sess'[sessions[p]].closed
             /\ ~sess'[sessions[p]].portOpen
             /\ ret'.err \in {Nil, HwErr}
             /\ \A e \in BOOLEAN : ~PortLocked(p, e)']_vars

C8_Witness ==
    /\ ret.op = "ClosePort" /\ ret.err = HwErr
    /\ ~MapHas(sessions, ret.portName)
    /\ \E i \in Refs : sess[i].PortName = ret.portName /\ sess[i].closed

(* C9: an OpenPort that fails because serial.Open or SetReadTimeout fails  *)
(* returns an error, registers no session and leaves no handle open.       *)
C9_FailedOpenLeavesNothing ==
    [][\A rq \in OpenRequests :
          (/\ OpenPort(rq[1], rq[2], rq[3], rq[4])
           /\ ret'.err \in {ErrOpenFailed, ErrSetReadTimeout})
          => /\ UNCHANGED <<sessions, sessionsByID, sess>>
             /\ leaked' = 0]_vars

C9_Witness ==
    /\ ret.op = "OpenPort" /\ ret.err = ErrSetReadTimeout
    /\ leaked = 0
    /\ ~MapHas(sessions, ret.portName)

(* C10: OpenPort and Configure given a config with a baud rate below 1 or  *)
(* data bits outside 5..8 fail with ErrInvalidConfig and change nothing.   *)
C10_InvalidConfigKind ==
    [][/\ \A rq \in DataRequests :
            (Validate(rq[2]) # Nil /\ OpenPort(rq[1], rq[2], rq[3], rq[4]))
            => (ret'.err = ErrInvalidConfig /\ Unchanged)
       /\ \A id \in DataIDs, c \in InvalidConfigs :
            Enter("Configure", DataPort, id, c)
            => (ret'.err = ErrInvalidConfig /\ Unchanged)]_vars

----------------------------------------------------------------------------
(* Properties of CloseAll and of the statistics *)

(* C11: after CloseAll returns, every session that had been opened is torn *)
(* down: its closed flag is set, its hardware handle is closed, its        *)
(* SubscribeToReads channels are closed and both lookup tables are empty,  *)
(* whatever allowSharedAccess is and whatever the hardware closes report.  *)
C11_CloseAllTearsDownEverything ==
    ret.op = "CloseAll" =>
        /\ sessions = EmptyMap
        /\ sessionsByID = EmptyMap
        /\ \A i \in Refs : sess[i].closed /\ ~sess[i].portOpen
        /\ \A c \in DOMAIN chans : chans[c]

(* C19: BytesSent, BytesReceived and Errors of every session never         *)
(* decrease, whatever Read, Write, Configure, Flush, SubscribeToReads,     *)
(* ClosePort, CloseAll or OpenPort call is made next.                      *)
C19_StatisticsNeverDecrease ==
    [][\A i \in Refs :
          /\ sess'[i].BytesSent >= sess[i].BytesSent
          /\ sess'[i].BytesReceived >= sess[i].BytesReceived
          /\ sess'[i].Errors >= sess[i].Errors]_vars

C19_Witness ==
    /\ ret.op \in {"ClosePort", "CloseAll"}
    /\ \E i \in Refs :
          /\ sess[i].closed
          /\ sess[i].BytesSent + sess[i].BytesReceived + sess[i].Errors > 0

(* The statistics of session s *)
StatsOf(s) ==
    [BytesSent |-> sess[s].BytesSent, BytesReceived |-> sess[s].BytesReceived,
     Errors |-> sess[s].Errors]

(* C20: a Write that passes validation and whose hardware write succeeds   *)
(* with n bytes adds exactly n to BytesSent and leaves Errors alone; when  *)
(* the hardware write fails, Errors grows by exactly 1, BytesSent stays    *)
(* and the hardware error is returned as it is. Read does the same with    *)
(* BytesReceived and the length of the data it returns; a successful read  *)
(* of zero bytes returns no error and leaves Errors alone.                 *)
C20_ExactStatistics ==
    [][\A k \in DOMAIN pending : \A s \in Refs :
          LET old == StatsOf(s)
              new == StatsOf(s)'
          IN
          pending[k].s = s =>
            /\ Write(k) =>
                 IF ret'.err = Nil
                 THEN new = [old EXCEPT !.BytesSent = @ + ret'.n]
                 ELSE ret'.err = HwErr /\ new = [old EXCEPT !.Errors = @ + 1]
            /\ Read(k) =>
                 IF ret'.err = Nil
                 THEN new = [old EXCEPT !.BytesReceived = @ + ret'.n]
                 ELSE /\ ret'.err = HwErr /\ ret'.n = 0
                      /\ new = [old EXCEPT !.Errors = @ + 1]]_vars

C20_Witness ==
    /\ ret.op = "Read" /\ ret.err = Nil /\ ret.n = 0
    /\ MapHas(sessions, DataPort)
    /\ sess[sessions[DataPort]].BytesSent = 1
    /\ sess[sessions[DataPort]].Errors = 0

----------------------------------------------------------------------------
(* Properties of SubscribeToReads against ClosePort *)

(* C12: once a session is closed, every channel SubscribeToReads returned  *)
(* for it is closed, in every interleaving of SubscribeToReads with        *)
(* ClosePort: a channel that is still open belongs to an open session.     *)
C12_ClosedSessionHasNoOpenChannel ==
    \A c \in DOMAIN chans :
        ~chans[c] =>
            \E i \in Refs :
                /\ ~sess[i].closed
                /\ \E k \in DOMAIN sess[i].readers : sess[i].readers[k] = c

----------------------------------------------------------------------------
(* Properties of the Continuous Reader *)

(* The Reader's session has been closed / a readLoop is still going /      *)
(* the Reader has stopped: the flag is off and every readLoop has returned *)
SessionClosed == sess # <<>> /\ sess[ReaderSession].closed
LoopAlive == \E l \in Loops : procs[l].pc # "done"
ReaderStopped == ~running /\ ~LoopAlive

(* C13: once the session of a running Reader has been closed, the Reader   *)
(* stops (IsRunning false, no readLoop issuing Reads), unless the port     *)
(* name is opened again or the process dies.                               *)
C13_ReaderStopsAfterClose ==
    (SessionClosed /\ running /\ LoopAlive)
        ~> (ReaderStopped \/ Len(sess) > 1 \/ panicked)

(* readLoop l makes an event of err: it takes the next sequence number    *)
(* and goes on to broadcast it                                             *)
MakesEvent(l, err) ==
    /\ procs'[l].sequence = (procs[l].sequence + 1) % SeqModulus
    /\ procs'[l].event = err
    /\ procs'[l].pc = "broadcast"

(* The event of readLoop l goes to every subscriber with room *)
Broadcasts(l) ==
    events' = [c \in DOMAIN events |->
                 IF c \in Range(subscribers) /\ Len(events[c].buf) < ChanCap
                 THEN [events[c] EXCEPT
                         !.buf = Append(@, DataEvent(procs[l].sequence, procs[l].event))]
                 ELSE events[c]]

(* C14: when the readLoop's Read returns ErrPortClosed or                  *)
(* ErrInvalidSession, the error event is broadcast and the loop goes to    *)
(* r.Stop() instead of another Read, and that Stop, finding the Reader     *)
(* running, closes stopChan and goes on to close the subscriber channels;  *)
(* when Read returns another error, the event is broadcast and the loop    *)
(* goes back to its next Read.                                             *)
C14_FatalAndTransientErrors ==
    [][\A l \in DOMAIN procs :
          /\ LoopValidate(l) =>
               LET v == ValidateSession(ReaderPort, ReaderSession)
               IN v.err # Nil => MakesEvent(l, v.err)
          /\ \A s \in Refs :
               (LoopRead(l) /\ procs[l].s = s /\ sess'[s].Errors # sess[s].Errors)
                  => MakesEvent(l, HwErr)
          /\ LoopBroadcast(l) =>
               /\ Broadcasts(l)
               /\ procs'[l].pc = IF procs[l].event \in {ErrPortClosed, ErrInvalidSession}
                                 THEN "stop" ELSE "for"
          /\ (IsLoop(l) /\ ~procs[l].cancelled /\ StopClose(l))
               => (~panicked' /\ procs'[l].pc = "stopSubs")
          /\ (IsLoop(l) /\ ~procs[l].cancelled /\ StopSubs(l))
               => (~running' /\ subscribers' = <<>>
                   /\ \A c \in Range(subscribers) : events'[c].closed)]_vars

(* C15: the sequence numbers a subscriber receives are strictly            *)
(* increasing in the order received, whatever Start, Subscribe and         *)
(* hardware reads are interleaved: each event taken out of a channel has a *)
(* higher number than the one taken before it (the first is at least 1).   *)
C15_SequenceStrictlyIncreasing ==
    [][\A ch \in DOMAIN events :
          Receive(ch) => events'[ch].last > events[ch].last]_vars

(* C16: Stop on a Reader that is not running changes nothing; Stop on a    *)
(* running Reader sets it not running, closes stopChan and goes on to      *)
(* close every subscribed channel and empty the list; Stop and Unsubscribe *)
(* only ever close a channel that is open, so that over Stop, Unsubscribe, *)
(* context cancellation and fatal read errors each subscriber channel is   *)
(* closed once and none is left open by a Stop.                            *)
C16_StopClosesEachChannelOnce ==
    [][/\ \A i \in DOMAIN procs :
            /\ (StopLoad(i) /\ ~running)
                 => (procs'[i].pc \in {"idle", "done"}
                     /\ UNCHANGED <<running, stopChan, subscribers, events>>)
            /\ StopStore(i) => ~running'
            /\ StopClose(i) => (~panicked' /\ stopChan' /\ procs'[i].pc = "stopSubs")
            /\ StopSubs(i)
                 => /\ subscribers' = <<>>
                    /\ \A c \in Range(subscribers) : ~events[c].closed /\ events'[c].closed
                    /\ ~panicked'
       /\ \A ch \in DOMAIN events :
            (Unsubscribe(ch) /\ ch \in Range(subscribers))
                 => (~events[ch].closed /\ events'[ch].closed /\ ~panicked'
                     /\ ch \notin Range(subscribers'))]_vars

(* C17: broadcast never blocks: an event goes to every subscriber whose    *)
(* buffer has room and is dropped for the subscribers whose buffer is      *)
(* full, and the readLoop goes on to its next Read (to r.Stop() after a    *)
(* fatal error) however many subscribers are full.                         *)
C17_BroadcastNeverBlocks ==
    [][\A l \in DOMAIN procs :
          LoopBroadcast(l) =>
             /\ Broadcasts(l)
             /\ procs'[l].pc = (IF Fatal(procs[l].event) THEN "stop" ELSE "for")]_vars

C17_Witness ==
    \E c \in DOMAIN events, d \in DOMAIN events :
        /\ c \in Range(subscribers) /\ d \in Range(subscribers)
        /\ events[c].buf # <<>> /\ events[d].buf # <<>>
        /\ Len(events[c].buf) = ChanCap
        /\ Head(events[d].buf).Sequence > events[c].buf[ChanCap].Sequence
        /\ \E l \in Loops : procs[l].pc = "for" /\ procs[l].sequence = Head(events[d].buf).Sequence

----------------------------------------------------------------------------
(* The timeout helpers *)

HelperReturned == helper.pc = "returned"
HelperWaiting == helper.pc \in {"call", "blocked"}

(* C18 as stated: the helper returns the underlying call's result when     *)
(* that call completed before the deadline, and the timeout error with no  *)
(* data (0 bytes written) otherwise.                                       *)
C18_ResultIffBeforeDeadline ==
    HelperReturned =>
        IF helper.first = "result"
        THEN helper.out = helper.under
        ELSE helper.out = TimedOut(helper.op)

(* What the helper returned is the result the underlying call sent, or the *)
(* timeout error after the deadline passed; and it is the earlier of the   *)
(* two when the caller was waiting in its select by then                   *)
HelperOutcome ==
    HelperReturned =>
        /\ \/ helper.under # NoResult /\ helper.out = helper.under
           \/ helper.deadline /\ helper.out = TimedOut(helper.op)
        /\ helper.waited =>
              helper.out = IF helper.first = "result" THEN helper.under
                           ELSE TimedOut(helper.op)

(* C18, amended: ReadWithTimeout and WriteWithTimeout always return, even  *)
(* when the underlying Manager call never returns.  They return the        *)
(* underlying call's result only if that call completed, and the timeout   *)
(* error with no data (0 bytes written) only if the deadline passed; when  *)
(* the caller was waiting in its select as the first of the two happened,  *)
(* it returns that one, and when both had happened before the caller       *)
(* reached its select, it may return either.                               *)
C18_TimeoutHelpersReturn ==
    /\ []HelperOutcome
    /\ HelperWaiting ~> HelperReturned

(* The helper returned the timeout error while the underlying call was     *)
(* still under way                                                         *)
C18_Witness ==
    /\ HelperReturned /\ helper.worker = "hw"
    /\ helper.out = TimedOut(helper.op)

----------------------------------------------------------------------------
(* Properties of Configure *)

(* The config a client's session was opened with *)
OpenConfig(s) ==
    (CHOOSE rq \in DataRequests : rq[3] = sess[s].ClientID /\ Validate(rq[2]) = Nil)[2]

(* The Configure that is k-th in flight is the round trip: its config is   *)
(* the one its session was opened with and still stores                    *)
RoundTrip(k) ==
    /\ pending[k].arg = OpenConfig(pending[k].s)
    /\ pending[k].arg = sess[pending[k].s].Config

(* The stored config is the new one exactly when the call returned no      *)
(* error, and every session's config is what it was otherwise              *)
ConfigReplacedIffNil(k) ==
    IF ret'.err = Nil
    THEN sess' = [sess EXCEPT ![pending[k].s].Config = pending[k].arg]
    ELSE sess' = sess

(* C21 as stated: Configure replaces the stored config exactly when it     *)
(* returns no error, and the round trip returns no error and leaves the    *)
(* stored config unchanged.                                                *)
C21_RoundTripNeverFails ==
    [][/\ \A id \in DataIDs, c \in DataConfigs :
            Enter("Configure", DataPort, id, c) => sess' = sess
       /\ \A k \in DOMAIN pending :
            Configure(k)
            => /\ ConfigReplacedIffNil(k)
               /\ RoundTrip(k) => (ret'.err = Nil /\ sess' = sess)]_vars

(* C21, amended: Configure replaces the session's stored config with the   *)
(* new config exactly when it returns no error; on every error (invalid    *)
(* session, invalid config, hardware mode failure, read-timeout failure)   *)
(* the stored config is what it was before the call.  Configure with the   *)
(* config used at OpenPort fails only if the hardware rejects the mode or  *)
(* the read timeout, and leaves the stored config unchanged either way.    *)
C21_ConfigureStoresOnSuccess ==
    [][/\ \A id \in DataIDs, c \in DataConfigs :
            Enter("Configure", DataPort, id, c)
            => /\ sess' = sess
               /\ pending' # pending
                    => (ValidateSession(DataPort, id).err = Nil /\ Validate(c) = Nil)
       /\ \A k \in DOMAIN pending :
            Configure(k)
            => /\ ConfigReplacedIffNil(k)
               /\ RoundTrip(k)
                    => /\ ret'.err \in {Nil, ErrConfigureFailed, ErrSetReadTimeout}
                       /\ sess' = sess]_vars

(* A Configure replaced the config of the session opened with CfgMin *)
C21_Witness ==
    /\ ret.op = "Configure" /\ ret.err = Nil
    /\ \E s \in DOMAIN sess :
          /\ sess[s].Config = DefaultConfig /\ OpenConfig(s) = CfgMin
          /\ ~sess[s].closed

----------------------------------------------------------------------------
(* Properties of the lookup tables *)

(* C22: a session that is registered stays registered, under its port name *)
(* and under its identifier, over every step that is neither a ClosePort   *)
(* with its port name and identifier nor a CloseAll: no other operation    *)
(* removes or replaces an entry of the lookup tables.                      *)
C22_OnlyCloseUnregisters ==
    [][/\ \A p \in DOMAIN sessions :
             (~ClosePort(p, sess[sessions[p]].ID) /\ ~CloseAll)
             => (MapHas(sessions', p) /\ sessions'[p] = sessions[p])
       /\ \A id \in DOMAIN sessionsByID :
             (~ClosePort(sess[sessionsByID[id]].PortName, id) /\ ~CloseAll)
             => (MapHas(sessionsByID', id) /\ sessionsByID'[id] = sessionsByID[id])]_vars

----------------------------------------------------------------------------
(* Properties of WatchPorts *)

(* C23: the callback of WatchPorts is invoked zero times for as long as    *)
(* the discovered port set stays as it was when WatchPorts was called, and *)
(* no more often than the set has changed since; it is never invoked at a  *)
(* tick whose scan equals, in names and open flags, the scan reported      *)
(* before.                                                                 *)
C23_CallbackOnlyOnChange ==
    [][/\ watch'.calls <= watch'.changes
       /\ watch'.calls > watch.calls
            => ~portsEqual(watch.lastPorts, scans.watch.result)]_vars

WatchLoopAlive == watch.pc \in {"select", "scan"}

(* C24 as stated: once the stop handle is closed the callback is not       *)
(* invoked again, and with an interval of 0 or less it is never invoked.   *)
C24_NoCallbackAfterClose ==
    [][/\ watch.stop => watch'.calls = watch.calls
       /\ watch'.interval <= 0 => watch'.calls = 0]_vars

(* C24, amended: after the stop handle returned by WatchPorts is closed    *)
(* the polling loop terminates, and once it has terminated the callback is *)
(* not invoked again, whatever ticks or port changes occur afterwards; a   *)
(* scan under way when the handle is closed, and a tick the select takes   *)
(* while the handle is closed, can still invoke the callback.  With an     *)
(* interval of 0 or less no loop is started and the callback is never      *)
(* invoked.                                                                *)
C24_StopTerminatesLoop ==
    /\ (watch.stop /\ WatchLoopAlive) ~> (watch.pc = "done")
    /\ [][watch.pc = "done" => (watch'.pc = "done" /\ watch'.calls = watch.calls)]_vars
    /\ [](WatchStarted /\ watch.interval <= 0 => (watch.pc = "off" /\ watch.calls = 0))

(* The loop has ended after a callback, and the ports have changed since   *)
C24_Witness ==
    /\ watch.pc = "done" /\ watch.stop /\ watch.calls > 0
    /\ ~portsEqual(watch.lastPorts, Discovered)

----------------------------------------------------------------------------
(* Properties of the LineReader *)

(* The delimiter-terminated lines of a stream, without their delimiters *)
RECURSIVE SplitLines(_)
SplitLines(s) ==
    LET i == IndexOf(s, delimiter)
    IN IF i = 0 THEN <<>>
       ELSE <<SubSeq(s, 1, i - 1)>> \o SplitLines(SubSeq(s, i + 1, Len(s)))

(* What follows the last delimiter of a stream *)
RECURSIVE Remainder(_)
Remainder(s) ==
    LET i == IndexOf(s, delimiter)
    IN IF i = 0 THEN s ELSE Remainder(SubSeq(s, i + 1, Len(s)))

(* Every delimiter-terminated line, its delimiter counted, has at most max *)
(* bytes, and so has the unterminated remainder                            *)
LinesShort(s, max) ==
    /\ \A k \in 1..Len(SplitLines(s)) : Len(SplitLines(s)[k]) + 1 <= max
    /\ Len(Remainder(s)) <= max

(* The results the ReadLine calls are to return for the stream sent so far *)
ExpectedLines ==
    [k \in 1..Len(SplitLines(lr.stream)) |-> LineResult(SplitLines(lr.stream)[k], Nil)]
    \o (IF lr.closed /\ Remainder(lr.stream) # <<>>
        THEN <<LineResult(Remainder(lr.stream), Nil)>> ELSE <<>>)
    \o (IF lr.closed THEN <<LineResult(<<>>, ErrPortClosed)>> ELSE <<>>)

IsPrefix(a, b) == Len(a) <= Len(b) /\ a = SubSeq(b, 1, Len(a))

(* C25: for an error-free stream whose delimiter-terminated lines have at  *)
(* most maxLineSize bytes (and whose unterminated remainder has no more),  *)
(* whatever its chunking, the ReadLine calls return the delimiter-free     *)
(* segments of the stream in order; after the channel is closed the        *)
(* unterminated remainder is returned once and the next call fails with    *)
(* ErrPortClosed.                                                          *)
C25_ReadLineReturnsTheLines ==
    (lr.maxLine # 0 /\ ~lr.errors /\ LinesShort(lr.stream, lr.maxLine))
        => IsPrefix(lr.out, ExpectedLines)

----------------------------------------------------------------------------
(* Properties of the two lookup tables *)

(* C26: the two lookup tables hold the same sessions: every session in the *)
(* by-identifier table is the one stored under its port name in the        *)
(* by-name table, and every session in the by-name table is stored under   *)
(* its identifier in the by-identifier table.                              *)
C26_TablesHoldTheSameSessions ==
    /\ \A id \in DOMAIN sessionsByID :
          LET s == sessionsByID[id]
          IN MapHas(sessions, sess[s].PortName) /\ sessions[sess[s].PortName] = s
    /\ \A p \in DOMAIN sessions :
          LET s == sessions[p]
          IN MapHas(sessionsByID, sess[s].ID) /\ sessionsByID[sess[s].ID] = s

----------------------------------------------------------------------------
(* Properties of the locks *)

(* The tasks that have a read, write, set-mode, set-read-timeout or        *)
(* reset-input-buffer call in flight on the handle of session s            *)
InFlight(s) == {t \in Tasks : threads[t].pc = "hw" /\ threads[t].s = s}

(* The tasks that have port.Close() in flight on the handle of session s *)
Closing(s) == {t \in Tasks : threads[t].pc = "closing" /\ threads[t].s = s}

(* C27: for every session at most one of the hardware calls read, write,   *)
(* set-mode, set-read-timeout and reset-input-buffer is in flight at any   *)
(* time, over every interleaving of Read, Write, Configure and Flush calls *)
(* on that session.                                                        *)
C27_OneHardwareCallPerSession ==
    \A s \in DOMAIN sess : Cardinality(InFlight(s)) <= 1

(* A task has a hardware call in flight and another waits for session.mu   *)
(* of the same session                                                     *)
C27_Witness ==
    \E s \in DOMAIN sess, u \in Tasks :
        /\ InFlight(s) # {}
        /\ threads[u].pc = "lock" /\ threads[u].s = s

(* C28: every call on the hardware handle of a registered session, the     *)
(* close of the handle among them, is made by a task that holds the        *)
(* session's mutex, so no close runs while a read, write or reconfigure on *)
(* the same handle is in flight.                                           *)
C28_HandleOnlyUnderSessionMu ==
    \A s \in DOMAIN sess :
        /\ \A t \in InFlight(s) \cup Closing(s) : HoldsSessionMu(t, s)
        /\ Closing(s) # {} => InFlight(s) = {}

----------------------------------------------------------------------------
(* Lock order and deadlock *)

(* The locks of the program: the registry lock, the mutex and the          *)
(* subscriber lock of a session, the subscriber lock of the Reader and the *)
(* lock of the Scanner                                                     *)
Locks ==
    {<<"m.mu", NoSession>>, <<"subMu", NoSession>>, <<"scanner.mu", NoSession>>}
    \cup {<<"session.mu", s>> : s \in DOMAIN sess}
    \cup {<<"readersMu", s>> : s \in DOMAIN sess}

(* The locks task t holds, for writing or for reading *)
Held(t) ==
    {l \in Locks :
        CASE l[1] = "m.mu" -> HoldsManagerMu(t)
          [] l[1] = "session.mu" -> HoldsSessionMu(t, l[2])
          [] l[1] = "readersMu" -> HoldsReadersMu(t, l[2])
          [] l[1] = "subMu" -> HoldsSubMu(t) \/ ReadsSubMu(t)
          [] l[1] = "scanner.mu" -> HoldsScannerMu(t)}

(* The lock task t is about to acquire, if it is about to acquire one *)
Wanted(t) ==
    CASE threads[t].pc \in {"mlock", "rlock"} -> {<<"m.mu", NoSession>>}
      [] threads[t].pc = "lock" -> {<<"session.mu", threads[t].s>>}
      [] threads[t].pc = "rdlock" -> {<<"readersMu", threads[t].s>>}
      [] threads[t].pc \in {"sublock", "subrlock"} -> {<<"subMu", NoSession>>}
      [] threads[t].pc = "scanlock" -> {<<"scanner.mu", NoSession>>}
      [] OTHER -> {}

(* Task t cannot go on before task u has released a lock.  A writer that   *)
(* waits for a sync.RWMutex keeps new readers out, so a task that wants    *)
(* subMu for reading also waits for the tasks that want it for writing     *)
(* while it is held.                                                       *)
WaitsFor(t, u) ==
    /\ t # u
    /\ \/ Wanted(t) \cap Held(u) # {}
       \/ /\ threads[t].pc = "subrlock" /\ threads[u].pc = "sublock"
          /\ \E v \in Tasks : HoldsSubMu(v) \/ ReadsSubMu(v)

(* Task t is inside a call or inside readLoop *)
Busy(t) == ~(threads[t].pc \in {"idle", "done"})

(* The steps of the tasks that are inside a call *)
BusyStep ==
    \E t \in Tasks :
       \/ ManagerLock(t) \/ LockedOpenPort(t) \/ LockedCloseAll(t)
       \/ \E id \in LockIDs : LockedClosePort(t, id) \/ Validated(t, id)
       \/ ReadersLock(t) \/ CloseReaders(t) \/ CloseReturns(t)
       \/ SessionLock(t) \/ HardwareReturns(t) \/ SubscribeAppends(t)
       \/ StartValidated(t) \/ StartSpawns(t) \/ SubLock(t) \/ SubLocked(t)
       \/ threads[t].pc = "stop" /\ StopBegins(t)
       \/ StopStores(t) \/ StopCloses(t)
       \/ LoopTop(t) \/ LoopSelects(t) \/ LoopValidated(t) \/ LoopReadReturns(t)
       \/ BroadcastLock(t) \/ BroadcastSends(t)
       \/ ScanLists(t) \/ ScanGetsSession(t) \/ ScannerLock(t) \/ ScanCaches(t)

(* C29: with every hardware call returning, the calls of OpenPort,         *)
(* ClosePort, CloseAll, ValidateSession, Read, Write, Configure, Flush,    *)
(* SubscribeToReads, Scan and of the Reader's Start, Stop, Subscribe,      *)
(* Unsubscribe and broadcast never deadlock.  The only lock a task holds   *)
(* while it acquires another is m.mu, and the lock it then acquires is a   *)
(* readersMu, so the locks are acquired in no cyclic order; no set of      *)
(* tasks wait for one another; and while a task is inside a call and the   *)
(* program has not panicked, some task inside a call can take a step.      *)
C29_NoDeadlock ==
    /\ \A t \in Tasks : \A h \in Held(t), w \in Wanted(t) :
          h[1] = "m.mu" /\ w[1] = "readersMu"
    /\ \A S \in SUBSET Tasks :
          S # {} => \E t \in S : \A u \in S : ~WaitsFor(t, u)
    /\ (Alive /\ \E t \in Tasks : Busy(t)) => ENABLED BusyStep

(* ClosePort holds m.mu and waits for the readersMu that SubscribeToReads  *)
(* holds, while the readLoop is inside broadcast and a task waits for      *)
(* subMu                                                                   *)
C29_Witness ==
    /\ \E t, u \in Tasks :
          /\ threads[t].op = "ClosePort" /\ threads[t].pc = "rdlock"
          /\ threads[u].op = "SubscribeToReads" /\ threads[u].pc = "appending"
          /\ WaitsFor(t, u)
    /\ \E t \in Tasks : threads[t].op = "readLoop" /\ Busy(t)

(* The event readLoop l broadcasts in this step carries the number         *)
(* of the event the loop made, and every subscriber whose buffer has room  *)
(* receives it                                                             *)
Sends(l) ==
    \A ch \in Range(subscribers) :
        Len(events[ch].buf) < ChanCap =>
           /\ Len(events'[ch].buf) = Len(events[ch].buf) + 1
           /\ events'[ch].buf[Len(events'[ch].buf)].Sequence = procs[l].sequence

(* The hardware read of the readLoop returned no data and no error: the    *)
(* step counted neither a byte nor an error                                *)
ZeroLengthRead == sess' = sess

(* readLoop l makes an event in this step *)
EventMade(l) ==
    (LoopValidate(l) \/ LoopRead(l)) /\ procs'[l].pc = "broadcast"

(* C30: a successful zero-length Read of the readLoop makes no event and   *)
(* leaves the sequence counter alone; every other Read makes an event that *)
(* carries the number of the loop's previous event plus 1 (1 for the       *)
(* first) and that every subscriber whose buffer has room receives, so a   *)
(* subscriber whose buffer is never full receives consecutive numbers from *)
(* one run of the loop.                                                    *)
C30_ConsecutiveSequenceNumbers ==
    [][\A l \in DOMAIN procs :
          /\ (LoopRead(l) /\ ZeroLengthRead)
                => (procs'[l].sequence = procs[l].sequence /\ procs'[l].pc = "for")
          /\ (LoopRead(l) /\ ~ZeroLengthRead) => EventMade(l)
          /\ EventMade(l) => procs'[l].sequence = procs[l].sequence + 1
          /\ LoopBroadcast(l) => Sends(l)]_vars

----------------------------------------------------------------------------
(* Cancellation of the Reader *)

(* The context of a readLoop that has not returned is cancelled *)
Cancelled == \E l \in Loops : procs[l].cancelled /\ procs[l].pc # "done"

(* Channel c has been closed and taken out of the list of subscribers *)
ChannelClosed(c) ==
    c \in DOMAIN events /\ events[c].closed /\ ~(c \in Range(subscribers))

(* Channel c is subscribed to the running Reader whose context is          *)
(* cancelled                                                               *)
SubscribedAtCancel(c) == Cancelled /\ running /\ c \in Range(subscribers)

(* C31: once the context given to Start is cancelled while the Reader      *)
(* runs, and every hardware Read returns, the Reader ends: it is not       *)
(* running, its channels are closed and its loop has returned.  A Read in  *)
(* flight is not interrupted, and an iteration that begins after the       *)
(* cancellation or after Stop starts no Read: the for-check ends the loop  *)
(* once running is false, and the select takes no default case once the    *)
(* context is done or stopChan is closed.                                  *)
C31_CancelEndsReader ==
    /\ (Cancelled /\ running) ~> ReaderStopped
    /\ \A c \in 1..MaxSubscribers :
          SubscribedAtCancel(c) ~> ChannelClosed(c)
    /\ [][\A l \in DOMAIN procs :
            /\ (LoopFor(l) /\ ~running) => procs'[l].pc = "done"
            /\ (LoopSelect(l) /\ (procs[l].cancelled \/ stopChan))
                  => procs'[l].pc # "read"
            /\ (CancelCtx(l) /\ procs[l].pc = "read") => procs'[l].pc = "read"]_vars

----------------------------------------------------------------------------
(* What Scan reports *)

(* Scanner.GetCached, lines 913-917 *)
GetCached == cachedPorts

(* The order of the port names as strings *)
NameLess(a, b) == <<a, b>> \in {<<"COM1", "COM2">>}

(* The PortInfo tells what the registry holds under its name: with a       *)
(* manager attached the port is open exactly when a session is registered  *)
(* under the name, and is then locked by the client of that session;       *)
(* without one the port is neither open nor locked                         *)
Reports(info) ==
    IF scanner.manager # "nil" /\ MapHas(sessions, info.Name)
    THEN info.IsOpen /\ info.LockedBy = sess[sessions[info.Name]].ClientID
    ELSE ~info.IsOpen /\ info.LockedBy = ""

SortedByName(ports) ==
    \A i, j \in DOMAIN ports : i < j => NameLess(ports[i].Name, ports[j].Name)

Names(ports) == {ports[i].Name : i \in DOMAIN ports}

(* C32: for every PortInfo of a Scan with a manager attached, IsOpen is    *)
(* true exactly when the manager has a session registered under the port   *)
(* name at the lookup, and LockedBy is then the client of that session;    *)
(* with no manager IsOpen is false and LockedBy empty for every port.  The *)
(* result is sorted by name.  Only a Scan changes the cache, each Scan     *)
(* stores the result it returns, and GetCached returns the result of the   *)
(* Scan that stored last.                                                  *)
C32_ScanReportsRegistry ==
    [][/\ \A w \in Callers :
            /\ ScanLooksUp(w) => Reports(scans'[w].result[Len(scans'[w].result)])
            /\ ScanStores(w)
                 => /\ SortedByName(GetCached')
                    /\ Names(GetCached') = Names(scans[w].result)
                    /\ Len(GetCached') = Len(scans[w].result)
                    /\ \A i \in DOMAIN GetCached' :
                          \E k \in DOMAIN scans[w].result : GetCached'[i] = scans[w].result[k]
                    /\ scans'[w].result = GetCached'
       /\ GetCached' # GetCached => \E w \in Callers : ScanStores(w)
       /\ (ScanReturns /\ scans.call.op = "Scan") => scans'.call.out = scans.call.result
       /\ (WatchCompare /\ watch'.calls # watch.calls)
            => watch'.lastPorts = scans.watch.result]_vars

(* A Scan has found two ports, one of them open, and its result is cached *)
C32_Witness ==
    /\ Len(GetCached) = 2
    /\ \E i \in DOMAIN GetCached : GetCached[i].IsOpen /\ GetCached[i].LockedBy = "alice"
    /\ \E i \in DOMAIN GetCached : ~GetCached[i].IsOpen
    /\ GetCached = watch.lastPorts
    /\ scans.call.calls > 0

----------------------------------------------------------------------------
(* The closed flag and the tables *)

(* A task holds m.mu for writing *)
ManagerMuHeld == \E t \in Tasks : HoldsManagerMu(t)

(* C33: no session that is in the by-name table has its closed flag set    *)
(* at any point where m.mu is not held for writing, since                  *)
(* closeSessionLocked sets the flag and deletes the entries inside one     *)
(* critical section of m.mu; so every ValidateSession returns success,     *)
(* ErrPortNotOpen or ErrInvalidSession and never ErrPortClosed.            *)
C33_NoClosedSessionInTable ==
    /\ [](~ManagerMuHeld =>
            \A p \in DOMAIN sessions : ~sess[sessions[p]].closed)
    /\ [][\A t \in Tasks, id \in LockIDs :
             Validated(t, id) =>
                ValidateSession(LockPort, id).err \in {Nil, ErrPortNotOpen, ErrInvalidSession}]_vars

(* closeSessionLocked has set the flag of a session that is still in the   *)
(* table, while another task waits in ValidateSession for m.mu             *)
C33_Witness ==
    /\ \E p \in DOMAIN sessions : sess[sessions[p]].closed
    /\ \E t \in Tasks : threads[t].pc = "closing"
    /\ \E t \in Tasks : threads[t].pc = "rlock" /\ threads[t].op = "ValidateSession"

----------------------------------------------------------------------------
(* Hardware calls and the close of the handle *)

(* The counters of session s *)
Counters(ss, s) ==
    [BytesSent |-> ss[s].BytesSent, BytesReceived |-> ss[s].BytesReceived,
     Errors |-> ss[s].Errors]

(* Task t issues a read, write, set-mode, set-read-timeout or              *)
(* reset-input-buffer call on the handle of its session                    *)
Issues(t) ==
    \/ SessionLock(t)
    \/ HardwareReturns(t) /\ threads'[t].pc = "hw"

(* C34: in every interleaving of Read, Write, Configure and Flush with     *)
(* ClosePort or CloseAll on the same session, no hardware call is issued   *)
(* on the handle of a session after that handle was closed, and the        *)
(* statistics of a session are not modified after it was closed.           *)
C34_NoHardwareCallAfterClose ==
    [][\A t \in Tasks :
          /\ Issues(t) => sess[threads[t].s].portOpen
          /\ (HardwareReturns(t) /\ sess[threads[t].s].closed) =>
                Counters(sess', threads[t].s) = Counters(sess, threads[t].s)]_vars

----------------------------------------------------------------------------
(* The close of stopChan *)

(* C35: over every interleaving of Start, Stop, context cancellation and   *)
(* fatal read errors on one Reader, concurrent Stop calls included, the    *)
(* Reader's stopChan is closed at most once: no step of Stop closes it     *)
(* when it is closed already.                                              *)
C35_StopChanClosedOnce ==
    [][\A i \in DOMAIN procs : StopClose(i) => ~stopChan]_vars

----------------------------------------------------------------------------
(* The number of read loops *)

(* The readLoop goroutines that have not returned *)
LiveLoops == {l \in Loops : procs[l].pc # "done"}

(* C36: at any time at most one readLoop is running for the Reader, in     *)
(* every interleaving of its Start calls, concurrent ones included.        *)
C36_AtMostOneReadLoop == Cardinality(LiveLoops) <= 1

----------------------------------------------------------------------------
(* broadcast and the close of subscriber channels *)

(* A task holds subMu for writing *)
SubMuHeld == \E t \in Tasks : HoldsSubMu(t)

(* C37: in every interleaving of broadcast with Stop, Unsubscribe and      *)
(* Subscribe, broadcast never sends on a channel that has been closed: a   *)
(* subscriber channel is closed only by a task that holds subMu for        *)
(* writing, and the same critical section takes it out of the list.        *)
C37_NoSendOnClosedChannel ==
    /\ [](\A c \in Range(subscribers) : ~events[c].closed)
    /\ [][/\ \A t \in Tasks :
               BroadcastSends(t) =>
                  (~panicked' /\ \A c \in Range(threads[t].subs) : ~events[c].closed)
          /\ \A c \in DOMAIN events :
               (~events[c].closed /\ events'[c].closed) =>
                  (SubMuHeld /\ ~(c \in Range(subscribers')))]_vars

(* A broadcast holds the read lock with a subscriber in its list while an  *)
(* Unsubscribe or a Stop waits for subMu                                   *)
C37_Witness ==
    \E t, u \in Tasks :
        /\ threads[t].pc = "broadcasting" /\ threads[t].subs # <<>>
        /\ threads[u].pc = "sublock" /\ threads[u].op # "Subscribe"

----------------------------------------------------------------------------
(* The goroutine of a timeout helper *)

(* Call c has returned the timeout error, or a later call has been made    *)
(* while its goroutine had not ended (its caller had returned by then, and *)
(* a caller returns before the goroutine has sent only by the deadline):   *)
(* the goroutine of call c is abandoned                                    *)
Abandoned(c) ==
    LET h == Goroutine(c)
    IN /\ h.pc = "returned" /\ h.worker # "none"
       /\ h.out = TimedOut(h.op)

(* The goroutine of call c is inside a hardware call that never returns *)
Hung(c) == Goroutine(c).worker = "hung"

(* The goroutine of call c waits for session.mu, which the goroutine of a  *)
(* hardware call that never returns holds                                  *)
WaitsBehindHung(c) ==
    /\ Goroutine(c).worker = "lock"
    /\ \E d \in Calls : Hung(d) /\ Goroutine(d).s = Goroutine(c).s

(* The abandoned goroutines that can never finish, and the hardware calls  *)
(* of abandoned goroutines that never return                               *)
NeverFinish == {c \in Calls : Abandoned(c) /\ (Hung(c) \/ WaitsBehindHung(c))}
NeverReturn == {c \in Calls : Abandoned(c) /\ Hung(c)}

(* The result channel of every call has one slot, so the send of its       *)
(* goroutine never waits although nobody receives, and a goroutine that    *)
(* has not reached its send is one whose Manager call has not returned     *)
SendNeverBlocks ==
    \A c \in Calls :
        LET h == Goroutine(c)
        IN /\ Len(h.resultChan) <= ResultChanCap
           /\ h.worker = "send" => (CanSend(h) /\ h.under # NoResult)
           /\ h.worker \in {"validate", "lock", "hw", "hung"} => h.under = NoResult

----------------------------------------------------------------------------
(* The bytes that go through the LineReader *)

(* The pass of ReadLine that is taken finds a delimiter in the buffer *)
DelimiterFound == IndexOf(lr.buffer, delimiter) # 0

(* The data of the event the pass takes out of the channel *)
ConsumedData == IF Len(lr'.dataChan) < Len(lr.dataChan) THEN Head(lr.dataChan).Data ELSE <<>>

(* The bytes the pass hands to the caller: the line it returns, with the   *)
(* delimiter put back when the line ends at one                            *)
ReturnedBytes ==
    IF Len(lr'.out) > Len(lr.out)
    THEN lr'.out[Len(lr'.out)].line \o (IF DelimiterFound THEN <<delimiter>> ELSE <<>>)
    ELSE <<>>

(* C39: ReadLine loses and duplicates no byte.  In every pass of ReadLine  *)
(* the bytes buffered before it followed by the data of the event it       *)
(* consumes are the bytes it returns (the line, and the delimiter when the *)
(* line was returned because one was found) followed by the bytes buffered *)
(* after it; so after any sequence of ReadLine calls the returned lines    *)
(* followed by the buffer are the data of the events consumed, also when a *)
(* line is returned because the buffer exceeded maxLine or because the     *)
(* channel closed.                                                         *)
C39_NoByteLostOrDuplicated ==
    [][ReadLine => lr.buffer \o ConsumedData = ReturnedBytes \o lr'.buffer]_vars

(* ReadLine has returned an empty line for a delimiter, a line longer than *)
(* maxLine, and the rest of the buffer after the channel closed            *)
C39_Witness ==
    /\ lr.closed /\ lr.dataChan = <<>> /\ lr.buffer = <<>>
    /\ \E i, j, k \in DOMAIN lr.out :
          /\ i < j /\ j < k
          /\ lr.out[i] = LineResult(<<>>, Nil)
          /\ lr.out[j].err = Nil /\ Len(lr.out[j].line) > lr.maxLine
          /\ lr.out[k].err = Nil /\ lr.out[k].line # <<>>
          /\ Len(lr.out[k].line) <= lr.maxLine

----------------------------------------------------------------------------
(* The sequence counter at its maximum *)

(* C40: the sequence number is a 32-bit unsigned counter that is 1 for the *)
(* first event of a readLoop and one more for each further event; the      *)
(* numbers of successive events of one readLoop never decrease or repeat,  *)
(* also when the counter passes its maximum value.                         *)
C40_SequenceNeverDecreases ==
    [][\A l \in DOMAIN procs :
          EventMade(l) => procs'[l].sequence > procs[l].sequence]_vars

====
